---- MODULE Spec2Model ----
(***************************************************************************)
(* Push2Type: a push-to-talk voice satellite.  This module models the      *)
(* concurrent core of the program:                                         *)
(*   - the control-plane server supervisor and its restartable HTTP        *)
(*     listener (src/src/server.rs),                                       *)
(*   - the hotkey worker and its chord parsing (src/src/hotkey.rs),        *)
(*   - the audio recorder's capture window (src/src/audio.rs).             *)
(* Channels (crossbeam unbounded) are sequences; Option<T> is a sequence   *)
(* of length at most one (None == <<>>, Some(x) == <<x>>).  Each           *)
(* subsystem has its own specification over the shared variables.          *)
(***************************************************************************)
EXTENDS Integers, Sequences, FiniteSets, TLC

VARIABLES
    \* ---- control-plane supervisor thread (server.rs) ----
    cmd_rx,       \* command channel: ServerCommand values in flight
    enabled,      \* supervisor local `enabled`
    port,         \* supervisor local `port`
    running,      \* supervisor local `running: Option<RunningServer>`
    active,       \* the handle taken by stop_server while it joins
    sup_pc,       \* supervisor position: "init", "recv" (blocked in cmd_rx.recv), "join"
    cmd,          \* the command the supervisor loop received last (Option)
    listeners,    \* live listener threads: id -> [port, pc, stop_rx]
    tts_rx,       \* TTS inbound channel
    reply,        \* the last HTTP exchange: <<>> or <<[req, status, body]>>
    n_cmds,       \* commands sent so far by ServerControl callers
    n_served,     \* requests received so far by listeners
    n_binds,      \* Server::http calls made so far
    last_bind,    \* outcome of the last Server::http call: "none", "ok", "fail"
    \* ---- outbound event channel (all workers) ----
    events,
    \* ---- hotkey worker (hotkey.rs) ----
    hotkey_str,   \* configured chord string, as its '+'-separated tokens
    hk_pc,        \* hotkey worker position: "boot", "run"
    spec,         \* the HotkeySpec in use (Option)
    st,           \* KeyState of the event-hook backend
    was_active,   \* the edge detector's previous chord state
    n_keys,       \* keyboard events produced so far by the environment
    held,         \* keys physically down (what GetAsyncKeyState reports)
    backend,      \* "hook" (rdev::listen) or "poll" (windows key-state polling)
    \* ---- audio recorder (audio.rs) ----
    capturing,    \* AudioRecorder.capturing
    buffer,       \* AudioRecorder.buffer
    stt_rx,       \* STT inbound channel
    rec_calls,    \* calls completed on the recorder so far, with what stop_capture returned
    au_pc,        \* position of each caller of the recorder inside start/stop_capture
    cb_pc,        \* device callback: None, or Some(chunk) once it has seen capturing = true
    n_samples,    \* samples the device callback has appended to the buffer so far
    cb_win,       \* windows opened so far when the callback in progress tested the flag
    \* ---- STT and TTS workers (stt.rs, tts.rs) ----
    config,       \* the shared AppConfig
    env_keys,     \* providers whose API key is set in the process environment
    stt_pc,       \* STT worker: "recv", "transcribe", "inject"
    stt_cur,      \* STT worker: the item being processed (Option)
    tts_pc,       \* TTS worker: "recv", "synth", "loop", "read", "play"
    tts_cur,      \* TTS worker: the request being processed (Option)
    ws_in,        \* websocket: the frame waiting to be read (Option)
    ws_n,         \* websocket: non-final frames the peer has sent on this connection
    pcm_bytes,    \* read_audio_until_done: bytes accumulated so far
    expired,      \* read_audio_until_done: start.elapsed() > 20 s
    sent,         \* per pipeline, every item sent to its queue, in order
    taken,        \* per pipeline, every item the worker received, in order
    calls,        \* calls the workers made to their collaborators, in order
    \* ---- the GUI thread and the lock of the shared configuration (app.rs) ----
    cfg_lock,     \* holder of the Mutex<AppConfig>: "free", "gui", "stt" or "tts"
    gui_pc,       \* GUI thread: "idle", or "saving" inside the save of the settings
    n_saves,      \* settings saves started so far
    draft,        \* the GUI's drafts of the bridge settings: [server_port, tts_bridge_enabled]
    rx_gone,      \* channels whose receiver was dropped (its thread has ended)
    \* ---- sample conversion (audio.rs) and the WAV container (stt.rs, tts.rs) ----
    device,       \* the input device configuration: [format, channels]
    cb_data,      \* the raw data of the device callback in progress (Option)
    wav_in,       \* samples and sample rate handed to pcm_to_wav_bytes
    wav_bytes,    \* the container pcm_to_wav_bytes produced (Option)
    wav_out       \* what decode_wav_to_i16 made of the container (Option)

serverVars == <<cmd_rx, enabled, port, running, active, sup_pc, cmd, listeners, tts_rx,
                reply, n_cmds, n_served, n_binds, last_bind>>
hotkeyVars == <<hotkey_str, hk_pc, spec, st, was_active, n_keys, held, backend>>
audioVars  == <<capturing, buffer, stt_rx, rec_calls, au_pc, cb_pc, n_samples, cb_win>>
workerVars == <<config, env_keys, stt_pc, stt_cur, tts_pc, tts_cur, ws_in, ws_n, pcm_bytes,
                expired, sent, taken, calls>>
guiVars    == <<cfg_lock, gui_pc, n_saves>>
appVars    == <<draft, rx_gone>>
codecVars  == <<device, cb_data, wav_in, wav_bytes, wav_out>>
vars == <<serverVars, events, hotkeyVars, audioVars, workerVars, guiVars, appVars, codecVars>>

(***************************************************************************)
(* Bounds of the model.                                                    *)
(***************************************************************************)
MaxCmds      == 2   \* commands sent to the supervisor
MaxReqs      == 2   \* HTTP requests received by listeners
MaxListeners == 2   \* listener thread ids available at one time
MaxTokens    == 2   \* '+'-separated tokens of a configured chord string
MaxKeys      == 4   \* keyboard events produced by the environment
MaxBuf       == 1   \* samples the capture buffer holds
MaxCalls     == 2   \* start_capture calls made in the recorder specification
MaxItems     == 2   \* items sent to the STT and TTS queues together
MaxFrames    == 1   \* frames the peer sends on one websocket before a final one
MaxCtlCmds   == 1   \* commands sent to the supervisor while the TTS worker runs
MaxChannels  == 2   \* channels of the input device
MaxData      == 3   \* raw samples the device hands to one callback invocation
MaxWav       == 2   \* samples written to one WAV container
MaxInputs    == 3   \* commands, requests and key events together, with receivers going away
MaxDrops     == 1   \* receivers dropped in one behaviour
MaxSaves     == 1   \* saves of the settings made in the GUI
MaxCfgReqs   == 1   \* requests sent to each worker while the settings are saved
MaxGroqReqs  == 2   \* requests sent to the TTS worker with Groq configured
MaxToggles   == 2   \* changes of the bridge checkbox made in the GUI

None == <<>>
Some(x) == <<x>>

Ports == {8000, 9000}
Callers == {"hotkey", "manual"}
ListenerIds == 1..MaxListeners

(***************************************************************************)
(* AppEvent values (app.rs).                                               *)
(***************************************************************************)
Ev(type, arg) == [type |-> type, arg |-> arg]

Endpoint(p) == "http://127.0.0.1:" \o ToString(p) \o "/speak"

(***************************************************************************)
(* ServerControl: the two commands.                                        *)
(***************************************************************************)
SetEnabledCmd(b) == [cmd |-> "SetEnabled", next |-> b]
SetPortCmd(p)    == [cmd |-> "SetPort", next |-> p]

\* `let _ = tx.send(m)` on an unbounded channel: the message is queued, or, when
\* the receiver was dropped, send returns Err, which is discarded with the message
ChanSend(ch, queue, m) == IF ch \in rx_gone THEN queue ELSE Append(queue, m)

set_enabled(b) ==
    /\ n_cmds < MaxCmds
    /\ cmd_rx' = ChanSend("cmd", cmd_rx, SetEnabledCmd(b))
    /\ n_cmds' = n_cmds + 1
    /\ UNCHANGED <<enabled, port, running, active, sup_pc, cmd, listeners, tts_rx, reply,
                   n_served, n_binds, last_bind, events>>

set_port(p) ==
    /\ n_cmds < MaxCmds
    /\ cmd_rx' = ChanSend("cmd", cmd_rx, SetPortCmd(p))
    /\ n_cmds' = n_cmds + 1
    /\ UNCHANGED <<enabled, port, running, active, sup_pc, cmd, listeners, tts_rx, reply,
                   n_served, n_binds, last_bind, events>>

(***************************************************************************)
(* HTTP requests and bodies.  A JSON object is a function from field       *)
(* names to typed values; a body is readable text or not, and the text is  *)
(* a JSON object or not.                                                   *)
(***************************************************************************)
JStr(s) == [t |-> "string", v |-> s]
JNum(s) == [t |-> "number", v |-> s]

Readable(obj)  == [utf8 |-> TRUE, json |-> Some(obj)]
MalformedBody  == [utf8 |-> TRUE, json |-> None]
UnreadableBody == [utf8 |-> FALSE, json |-> None]

Bodies ==
    { Readable([message |-> JStr("hello")]),
      Readable([message |-> JStr("hi"), voice |-> JStr("nova")]),
      Readable([voice |-> JStr("nova")]),
      Readable([message |-> JNum("5")]),
      MalformedBody,
      UnreadableBody }

Requests ==
    { [method |-> "GET", url |-> "/health", body |-> MalformedBody],
      [method |-> "POST", url |-> "/health", body |-> MalformedBody],
      [method |-> "GET", url |-> "/speak", body |-> MalformedBody],
      [method |-> "GET", url |-> "/status", body |-> MalformedBody] }
    \cup { [method |-> "POST", url |-> "/speak", body |-> b] : b \in Bodies }

\* Option<String> field of SpeakRequest: absent -> None, a string -> Some, else a type error.
OptStringOk(obj, f) == f \in DOMAIN obj => obj[f].t = "string"
OptString(obj, f) == IF f \in DOMAIN obj THEN Some(obj[f].v) ELSE None

\* serde_json::from_str::<SpeakRequest>: Ok iff the text is a JSON object whose
\* `message` is a string and whose optional fields, when present, have their type.
ParsesAsSpeakRequest(body) ==
    /\ body.json # None
    /\ LET obj == body.json[1] IN
        /\ "message" \in DOMAIN obj
        /\ obj["message"].t = "string"
        /\ OptStringOk(obj, "persona")
        /\ OptStringOk(obj, "voice")
        /\ OptStringOk(obj, "style")

SpeakRequestOf(body) ==
    LET obj == body.json[1] IN
    [message |-> obj["message"].v,
     persona |-> OptString(obj, "persona"),
     voice   |-> OptString(obj, "voice"),
     provider |-> OptString(obj, "provider"),
     show_text |-> OptString(obj, "show_text"),
     style   |-> OptString(obj, "style")]

TtsRequest(speak) == [speak |-> speak]

json_response(body, status) == [status |-> status, body |-> body]

(***************************************************************************)
(* The listener thread spawned by start_server.                            *)
(***************************************************************************)
Without(f, i) == [j \in DOMAIN f \ {i} |-> f[j]]

\* thread start: announce the endpoint (server.rs 118-119)
LsnOnline(i) ==
    /\ i \in DOMAIN listeners
    /\ listeners[i].pc = "spawned"
    /\ listeners' = [listeners EXCEPT ![i].pc = "poll"]
    /\ events' = events \o <<Ev("ServerOnline", Endpoint(listeners[i].port)),
                             Ev("Info", "endpoint online")>>
    /\ UNCHANGED <<cmd_rx, enabled, port, running, active, sup_pc, cmd, tts_rx, reply,
                   n_cmds, n_served, n_binds, last_bind>>

\* a variant of the tail of the thread that ends without reporting offline
LsnExit_Silent(i, evs) ==
    /\ listeners' = Without(listeners, i)
    /\ events' = evs

\* the tail of the thread: report offline, drop the Server (unbind), end
LsnExit(i, evs) ==
    /\ listeners' = Without(listeners, i)
    /\ events' = evs \o <<Ev("ServerOffline", ""), Ev("Info", "endpoint offline")>>

\* a variant of the loop top that never looks at the stop channel
LsnPoll_IgnoresStop(i) ==
    /\ i \in DOMAIN listeners
    /\ listeners[i].pc = "poll"
    /\ listeners' = [listeners EXCEPT ![i].pc = "recv"]
    /\ events' = events
    /\ UNCHANGED <<cmd_rx, enabled, port, running, active, sup_pc, cmd, tts_rx, reply,
                   n_cmds, n_served, n_binds, last_bind>>

\* loop top: stop_rx.try_recv()
LsnPoll(i) ==
    /\ i \in DOMAIN listeners
    /\ listeners[i].pc = "poll"
    /\ IF listeners[i].stop_rx > 0
         THEN LsnExit(i, events)
         ELSE /\ listeners' = [listeners EXCEPT ![i].pc = "recv"]
              /\ events' = events
    /\ UNCHANGED <<cmd_rx, enabled, port, running, active, sup_pc, cmd, tts_rx, reply,
                   n_cmds, n_served, n_binds, last_bind>>

\* server.recv_timeout(200ms) -> Ok(None)
LsnTimeout(i) ==
    /\ i \in DOMAIN listeners
    /\ listeners[i].pc = "recv"
    /\ listeners' = [listeners EXCEPT ![i].pc = "poll"]
    /\ UNCHANGED <<cmd_rx, enabled, port, running, active, sup_pc, cmd, tts_rx, reply,
                   n_cmds, n_served, n_binds, last_bind, events>>

\* a variant of the Err arm that reports the error and goes round the loop again
LsnRecvError_KeepsGoing(i) ==
    /\ i \in DOMAIN listeners
    /\ listeners[i].pc = "recv"
    /\ listeners' = [listeners EXCEPT ![i].pc = "poll"]
    /\ events' = Append(events, Ev("Error", "server recv failed"))
    /\ UNCHANGED <<cmd_rx, enabled, port, running, active, sup_pc, cmd, tts_rx, reply,
                   n_cmds, n_served, n_binds, last_bind>>

\* server.recv_timeout(200ms) -> Err(e)
LsnRecvError(i) ==
    /\ i \in DOMAIN listeners
    /\ listeners[i].pc = "recv"
    /\ LsnExit(i, Append(events, Ev("Error", "server recv failed")))
    /\ UNCHANGED <<cmd_rx, enabled, port, running, active, sup_pc, cmd, tts_rx, reply,
                   n_cmds, n_served, n_binds, last_bind>>

\* a variant of the GET /health arm that sheds load while speech is queued
HandleHealth_ShedsLoad(req) ==
    /\ reply' = Some([req |-> req,
                      resp |-> IF tts_rx = <<>>
                                 THEN json_response("{\"ok\":true}", 200)
                                 ELSE json_response("{\"error\":\"busy\"}", 503)])
    /\ UNCHANGED <<tts_rx, events>>

\* (&Method::Get, "/health")
HandleHealth(req) ==
    /\ reply' = Some([req |-> req, resp |-> json_response("{\"ok\":true}", 200)])
    /\ UNCHANGED <<tts_rx, events>>

\* a variant of the POST /speak arm that accepts whatever text it could read
HandleSpeak_AcceptsAnyText(req) ==
    IF ~req.body.utf8 THEN
        /\ reply' = Some([req |-> req,
                          resp |-> json_response("{\"error\":\"invalid body\"}", 400)])
        /\ UNCHANGED <<tts_rx, events>>
    ELSE
        /\ tts_rx' = Append(tts_rx, TtsRequest([message |-> "", persona |-> None,
                                                voice |-> None, style |-> None]))
        /\ reply' = Some([req |-> req,
                          resp |-> json_response("{\"accepted\":true}", 202)])
        /\ UNCHANGED events

\* a variant of the POST /speak arm that answers with the outcome of the send
HandleSpeak_PropagatesSendError(req) ==
    IF ~req.body.utf8 THEN
        /\ reply' = Some([req |-> req,
                          resp |-> json_response("{\"error\":\"invalid body\"}", 400)])
        /\ UNCHANGED <<tts_rx, events>>
    ELSE IF ParsesAsSpeakRequest(req.body) THEN
        /\ tts_rx' = ChanSend("tts", tts_rx, TtsRequest(SpeakRequestOf(req.body)))
        /\ reply' = Some([req |-> req,
                          resp |-> IF "tts" \in rx_gone
                                     THEN json_response("{\"error\":\"send failed\"}", 500)
                                     ELSE json_response("{\"accepted\":true}", 202)])
        /\ UNCHANGED events
    ELSE
        /\ events' = Append(events, Ev("Warning", "bad /speak request"))
        /\ reply' = Some([req |-> req,
                          resp |-> json_response("{\"error\":\"invalid json\"}", 400)])
        /\ UNCHANGED tts_rx

\* (&Method::Post, "/speak")
HandleSpeak(req) ==
    IF ~req.body.utf8 THEN
        /\ reply' = Some([req |-> req,
                          resp |-> json_response("{\"error\":\"invalid body\"}", 400)])
        /\ UNCHANGED <<tts_rx, events>>
    ELSE IF ParsesAsSpeakRequest(req.body) THEN
        /\ tts_rx' = ChanSend("tts", tts_rx, TtsRequest(SpeakRequestOf(req.body)))
        /\ reply' = Some([req |-> req,
                          resp |-> json_response("{\"accepted\":true}", 202)])
        /\ UNCHANGED events
    ELSE
        /\ events' = Append(events, Ev("Warning", "bad /speak request"))
        /\ reply' = Some([req |-> req,
                          resp |-> json_response("{\"error\":\"invalid json\"}", 400)])
        /\ UNCHANGED tts_rx

\* any other (method, url)
HandleOther(req) ==
    /\ reply' = Some([req |-> req,
                      resp |-> json_response("{\"error\":\"not found\"}", 404)])
    /\ UNCHANGED <<tts_rx, events>>

\* a variant of the match that looks at the path and not at the method
HandleRequest_PathOnly(req) ==
    IF req.url = "/health" THEN HandleHealth(req)
    ELSE IF req.url = "/speak" THEN HandleSpeak(req)
    ELSE HandleOther(req)

\* the match on (method, url): what is enqueued, reported and answered
HandleRequest(req) ==
    IF req.method = "GET" /\ req.url = "/health" THEN HandleHealth(req)
    ELSE IF req.method = "POST" /\ req.url = "/speak" THEN HandleSpeak(req)
    ELSE HandleOther(req)

\* server.recv_timeout(200ms) -> Ok(Some(request)), then the handler
LsnRequest(i, req) ==
    /\ i \in DOMAIN listeners
    /\ listeners[i].pc = "recv"
    /\ n_served < MaxReqs
    /\ n_served' = n_served + 1
    /\ listeners' = [listeners EXCEPT ![i].pc = "poll"]
    /\ HandleRequest(req)
    /\ UNCHANGED <<cmd_rx, enabled, port, running, active, sup_pc, cmd,
                   n_cmds, n_binds, last_bind>>

(***************************************************************************)
(* The supervisor thread.                                                  *)
(***************************************************************************)
\* The port is held while a listener thread owns a Server bound to it.
PortHeld(p) == \E i \in DOMAIN listeners : listeners[i].port = p

FreeIds == ListenerIds \ DOMAIN listeners
FreshId == CHOOSE i \in FreeIds : \A j \in FreeIds : i <= j

\* a variant of start_server that swallows a bind failure
start_server_SilentFailure(po, ok) ==
    /\ ok => ~PortHeld(po) /\ FreeIds # {}
    /\ n_binds' = n_binds + 1
    /\ IF ok
         THEN /\ running' = Some([port |-> po, id |-> FreshId])
              /\ listeners' = (FreshId :> [port |-> po, pc |-> "spawned", stop_rx |-> 0])
                                  @@ listeners
              /\ last_bind' = "ok"
              /\ events' = events
         ELSE /\ running' = None
              /\ listeners' = listeners
              /\ last_bind' = "fail"
              /\ events' = events

\* start_server: Server::http(addr) succeeds (ok) or fails; on success the
\* listener thread is spawned and its handle returned.
start_server(po, ok) ==
    /\ ok => ~PortHeld(po) /\ FreeIds # {}
    /\ n_binds' = n_binds + 1
    /\ IF ok
         THEN /\ running' = Some([port |-> po, id |-> FreshId])
              /\ listeners' = (FreshId :> [port |-> po, pc |-> "spawned", stop_rx |-> 0])
                                  @@ listeners
              /\ last_bind' = "ok"
              /\ events' = events
         ELSE /\ running' = None
              /\ listeners' = listeners
              /\ last_bind' = "fail"
              /\ events' = events \o <<Ev("Error", "server start failed"),
                                       Ev("ServerOffline", "")>>

\* a variant of stop_server that signals and joins but keeps the handle in `running`
stop_server_signal_KeepsHandle ==
    /\ active' = running
    /\ running' = running
    /\ listeners' = IF running[1].id \in DOMAIN listeners
                      THEN [listeners EXCEPT ![running[1].id].stop_rx = @ + 1]
                      ELSE listeners
    /\ sup_pc' = "join"
    /\ UNCHANGED <<events, n_binds, last_bind>>

\* stop_server on Some(active): running.take(), stop_tx.send(()), then join
stop_server_signal ==
    /\ active' = running
    /\ running' = None
    /\ listeners' = IF running[1].id \in DOMAIN listeners
                      THEN [listeners EXCEPT ![running[1].id].stop_rx = @ + 1]
                      ELSE listeners
    /\ sup_pc' = "join"
    /\ UNCHANGED <<events, n_binds, last_bind>>

\* a variant of stop_server that signals the listener and does not wait for it
Joined_WithoutWaiting(id) == TRUE

\* active.join.join() returns once the listener thread has ended
Joined(id) == id \notin DOMAIN listeners

\* a variant of needs_restart that restarts the listener on every command
needs_restart_Always(po) == TRUE

\* a variant of needs_restart that only looks at whether a listener exists
needs_restart_IgnoresPort(po) == running = None

\* `needs_restart` of reconcile_server_state
needs_restart(po) ==
    IF running # None THEN running[1].port # po ELSE TRUE

\* reconcile_server_state, up to its first blocking point
reconcile_server_state(en, po) ==
    IF ~en THEN
        IF running = None
          THEN /\ sup_pc' = "recv"
               /\ UNCHANGED <<running, active, listeners, events, n_binds, last_bind>>
          ELSE stop_server_signal
    ELSE IF ~needs_restart(po) THEN
        /\ sup_pc' = "recv"
        /\ UNCHANGED <<running, active, listeners, events, n_binds, last_bind>>
    ELSE IF running = None THEN
        /\ \E ok \in BOOLEAN : start_server(po, ok)
        /\ sup_pc' = "recv"
        /\ UNCHANGED active
    ELSE stop_server_signal

\* a variant of the supervisor that empties the TTS queue when it stops a listener
SupLeavesQueue_DrainsOnStop == tts_rx' = IF sup_pc' = "join" THEN <<>> ELSE tts_rx

\* the supervisor only hands `tts_tx` on to start_server, which clones it for
\* the listener thread; it never sends to or receives from the TTS channel
SupLeavesQueue == tts_rx' = tts_rx

\* the initial reconciliation (server.rs 49-52)
SupInit ==
    /\ sup_pc = "init"
    /\ reconcile_server_state(enabled, port)
    /\ SupLeavesQueue
    /\ UNCHANGED <<cmd_rx, enabled, port, cmd, reply, n_cmds, n_served>>

\* a variant of the command loop that drops a SetPort received while disabled
SupRecv_ForgetsPort ==
    /\ sup_pc = "recv"
    /\ cmd_rx # <<>>
    /\ LET c  == Head(cmd_rx)
           en == IF c.cmd = "SetEnabled" THEN c.next ELSE enabled
           po == IF c.cmd = "SetPort" /\ enabled THEN c.next ELSE port
       IN /\ cmd_rx' = Tail(cmd_rx)
          /\ cmd' = Some(c)
          /\ enabled' = en
          /\ port' = po
          /\ reconcile_server_state(en, po)
    /\ SupLeavesQueue
    /\ UNCHANGED <<reply, n_cmds, n_served>>

\* one iteration of `while let Ok(cmd) = cmd_rx.recv()`
SupRecv ==
    /\ sup_pc = "recv"
    /\ cmd_rx # <<>>
    /\ LET c  == Head(cmd_rx)
           en == IF c.cmd = "SetEnabled" THEN c.next ELSE enabled
           po == IF c.cmd = "SetPort" THEN c.next ELSE port
       IN /\ cmd_rx' = Tail(cmd_rx)
          /\ cmd' = Some(c)
          /\ enabled' = en
          /\ port' = po
          /\ reconcile_server_state(en, po)
    /\ SupLeavesQueue
    /\ UNCHANGED <<reply, n_cmds, n_served>>

\* the join returns; the rest of reconcile_server_state runs
SupJoin ==
    /\ sup_pc = "join"
    /\ Joined(active[1].id)
    /\ active' = None
    /\ sup_pc' = "recv"
    /\ IF enabled
         THEN \E ok \in BOOLEAN : start_server(port, ok)
         ELSE UNCHANGED <<running, listeners, events, n_binds, last_bind>>
    /\ SupLeavesQueue
    /\ UNCHANGED <<cmd_rx, enabled, port, cmd, reply, n_cmds, n_served>>

(***************************************************************************)
(* Configuration and voice resolution (config.rs, tts.rs).  Strings are    *)
(* drawn from the finite sets below; Lower and Trim are to_lowercase and   *)
(* trim on those strings.                                                  *)
(***************************************************************************)
Providers == {"xai", "openai", "groq"}

\* `to_lowercase()` on the voice and persona names used here
Lower(s) ==
    CASE s = "NOVA" -> "nova"
      [] s = "Rex" -> "rex"
      [] s = "Codex" -> "codex"
      [] s = "ALLOY" -> "alloy"
      [] OTHER -> s

\* `trim()` on the messages used here
Trim(s) ==
    CASE s = "  " -> ""
      [] s = " hi " -> "hi"
      [] s = "  a message of 200 characters  " -> "a message of 200 characters"
      [] s = " a message of 201 characters\n" -> "a message of 201 characters"
      [] OTHER -> s

\* a message of 201 characters, and `message.chars().count()`
LongMessage == "a message of 201 characters"
\* messages of 200 characters: of 200 bytes, and of 200 two-byte characters
FullMessage == "a message of 200 characters"
WideMessage == "a message of 200 two-byte characters"
CharCount(m) ==
    CASE m = "" -> 0
      [] m = "hi" -> 2
      [] m = LongMessage -> 201
      [] m \in {FullMessage, WideMessage} -> 200
      [] OTHER -> 5

\* a variant of the Groq limit that refuses a message of exactly 200 characters
GroqTooLong_AtLimit(message) == CharCount(message) >= 200

\* `message.chars().count() > 200`
GroqTooLong(message) == CharCount(message) > 200

\* AppConfig::default(), the fields the workers read
DefaultConfig ==
    [stt_provider |-> "openai",
     tts_provider |-> "xai",
     xai_voice |-> "rex",
     openai_voice |-> "alloy",
     groq_voice |-> "troy",
     xai_tts_style |-> "clear",
     stt_model |-> "gpt-4o-mini-transcribe",
     groq_stt_model |-> "whisper-large-v3-turbo",
     stt_model_by_provider |-> [p \in Providers |->
                                  CASE p = "openai" -> Some("gpt-4o-mini-transcribe")
                                    [] p = "groq" -> Some("whisper-large-v3-turbo")
                                    [] OTHER -> None],
     server_port |-> 7821,
     tts_bridge_enabled |-> TRUE,
     show_endpoint_text |-> TRUE,
     persona_voices |-> ("codex" :> "rex" @@ "reviewer" :> "sal" @@ "planner" :> "eve")]

is_valid_voice(provider, voice) ==
    CASE provider = "openai" ->
            voice \in {"alloy", "ash", "ballad", "coral", "echo", "fable", "nova", "onyx",
                       "sage", "shimmer", "verse", "marin", "cedar"}
      [] provider = "groq" ->
            voice \in {"autumn", "diana", "hannah", "austin", "daniel", "troy"}
      [] provider = "xai" -> voice \in {"ara", "rex", "sal", "eve", "leo"}

provider_default_voice(cfg, provider) ==
    CASE provider = "xai" -> Lower(cfg.xai_voice)
      [] provider = "openai" -> Lower(cfg.openai_voice)
      [] provider = "groq" -> Lower(cfg.groq_voice)

\* a variant of resolve_voice that looks the persona up before the explicit voice
resolve_voice_PersonaFirst(cfg, req, provider) ==
    IF req.persona # None /\ Lower(req.persona[1]) \in DOMAIN cfg.persona_voices
      THEN LET candidate == Lower(cfg.persona_voices[Lower(req.persona[1])])
           IN IF is_valid_voice(provider, candidate) THEN candidate
              ELSE provider_default_voice(cfg, provider)
    ELSE IF req.voice # None
      THEN LET candidate == Lower(req.voice[1])
           IN IF is_valid_voice(provider, candidate) THEN candidate
              ELSE provider_default_voice(cfg, provider)
    ELSE provider_default_voice(cfg, provider)

resolve_voice(cfg, req, provider) ==
    IF req.voice # None
      THEN LET candidate == Lower(req.voice[1])
           IN IF is_valid_voice(provider, candidate) THEN candidate
              ELSE provider_default_voice(cfg, provider)
    ELSE IF req.persona # None /\ Lower(req.persona[1]) \in DOMAIN cfg.persona_voices
      THEN LET candidate == Lower(cfg.persona_voices[Lower(req.persona[1])])
           IN IF is_valid_voice(provider, candidate) THEN candidate
              ELSE provider_default_voice(cfg, provider)
    ELSE provider_default_voice(cfg, provider)

\* SpeakRequest as its producers build it
SpeakRequest(message, persona, voice, provider, show_text, style) ==
    [message |-> message, persona |-> persona, voice |-> voice, provider |-> provider,
     show_text |-> show_text, style |-> style]

(***************************************************************************)
(* The two pipelines share the shape: producers send to an unbounded       *)
(* channel, one worker thread receives one item at a time.                 *)
(***************************************************************************)
\* a variant of the channel that hands out the newest item first
Dequeue_Newest(q) == q[Len(q)]

\* `rx.recv()` on a crossbeam channel: the oldest item
Dequeue(q) == Head(q)

\* everything the pipelines do not touch
\* what no worker step touches, apart from the configuration and its lock
workersBase == <<cmd_rx, enabled, port, running, active, sup_pc, cmd, listeners, reply,
                 n_cmds, n_served, n_binds, last_bind, hotkeyVars, capturing, buffer,
                 rec_calls, au_pc, cb_pc, n_samples, cb_win, env_keys, codecVars, appVars>>

workersFrame == <<workersBase, config, guiVars>>

\* a variant of the snapshot in which the worker keeps the guard for the request
LockAfterClone_Held(who) == who

\* `cfg.lock().expect("config lock").clone()`: the guard is a temporary of the
\* statement and is dropped at its end, so the lock is free again after the clone
LockAfterClone(who) == "free"

\* a variant that reads the shared configuration again when the call is made
CurrentOf_Live(cur) == config

\* the configuration a started request works with: its own clone
CurrentOf(cur) == cur.current

\* AppConfig::stt_model_for
stt_model_for(cfg, provider) ==
    IF cfg.stt_model_by_provider[provider] # None
      THEN cfg.stt_model_by_provider[provider][1]
      ELSE IF provider = "groq" THEN cfg.groq_stt_model ELSE cfg.stt_model

ItemsSent == Len(sent.stt) + Len(sent.tts)

\* `stt_tx.send(audio)` by the hotkey worker or the manual-capture thread
SttSend(by, samples) ==
    /\ ItemsSent < MaxItems
    /\ stt_rx' = Append(stt_rx, samples)
    /\ sent' = [sent EXCEPT !.stt = Append(@, samples)]
    /\ UNCHANGED <<workersFrame, events, tts_rx, stt_pc, stt_cur, tts_pc, tts_cur, ws_in,
                   ws_n, pcm_bytes, expired, taken, calls>>

(***************************************************************************)
(* The STT worker (stt.rs 23-55).                                          *)
(***************************************************************************)
\* what the provider answers to the transcription request
SttReplies ==
    { [kind |-> "send error", text |-> None],
      [kind |-> "status 500", text |-> None],
      [kind |-> "not json", text |-> None],
      [kind |-> "json", text |-> None],
      [kind |-> "json", text |-> Some("  ")],
      [kind |-> "json", text |-> Some(" hi ")] }

Ok(v) == [ok |-> TRUE, v |-> v]
Err(e) == [ok |-> FALSE, v |-> e]

\* transcribe_once after the request was sent
transcribe_once(ans) ==
    CASE ans.kind = "send error" -> Err("send error")
      [] ans.kind = "status 500" -> Err("status 500")
      [] ans.kind = "not json" -> Err("not json")
      [] OTHER -> Ok(Trim(IF ans.text # None THEN ans.text[1] ELSE ""))

\* transcribe_with_provider: the key lookup, then the request
transcribe_with_provider(ans) ==
    IF CurrentOf(stt_cur[1]).stt_provider \notin env_keys
      THEN Err("missing API key")
      ELSE transcribe_once(ans)

\* `while let Ok(samples) = stt_rx.recv()` and the two events before the request
SttRecv ==
    /\ stt_pc = "recv"
    /\ stt_rx # <<>>
    /\ cfg_lock = "free"
    /\ cfg_lock' = LockAfterClone("stt")
    /\ stt_cur' = Some([samples |-> Dequeue(stt_rx), text |-> "", current |-> config])
    /\ stt_rx' = Tail(stt_rx)
    /\ taken' = [taken EXCEPT !.stt = Append(@, Dequeue(stt_rx))]
    /\ events' = events \o <<Ev("SttBusy", "true"), Ev("Info", "stt audio seconds")>>
    /\ stt_pc' = "transcribe"
    /\ UNCHANGED <<workersBase, config, gui_pc, n_saves, tts_rx, tts_pc, tts_cur, ws_in,
                   ws_n, pcm_bytes, expired, sent, calls>>

\* a variant of the worker's Err arm that ends the worker thread
SttFailed_EndsWorker(e) ==
    /\ events' = events \o <<Ev("Error", "stt failed")>>
    /\ stt_pc' = "exited"
    /\ stt_cur' = None

\* `Err(e) => Error("stt failed: {e}")`, then SttBusy(false)
SttFailed(e) ==
    /\ events' = events \o <<Ev("Error", "stt failed"), Ev("SttBusy", "false")>>
    /\ stt_pc' = "recv"
    /\ stt_cur' = None

\* a variant of the worker's empty-transcript arm that leaves the busy flag set
SttEmptyTranscript_StaysBusy ==
    /\ events' = events \o <<Ev("Info", "stt produced empty transcript")>>
    /\ stt_pc' = "recv"
    /\ stt_cur' = None

\* `Ok((provider, _)) => Info("stt produced empty transcript ..")`, then SttBusy(false)
SttEmptyTranscript ==
    /\ events' = events \o <<Ev("Info", "stt produced empty transcript"),
                              Ev("SttBusy", "false")>>
    /\ stt_pc' = "recv"
    /\ stt_cur' = None

\* the transcription returns and the worker matches on the result
SttTranscribe(ans) ==
    /\ stt_pc = "transcribe"
    /\ LET res == transcribe_with_provider(ans) IN
        /\ calls' = IF CurrentOf(stt_cur[1]).stt_provider \in env_keys
                      THEN Append(calls, [op |-> "transcribe", by |-> "stt"])
                      ELSE calls
        /\ IF res.ok /\ res.v # ""
             THEN /\ events' = events \o <<Ev("Info", "stt provider used"),
                                           Ev("LastTranscript", res.v)>>
                  /\ stt_pc' = "inject"
                  /\ stt_cur' = Some([stt_cur[1] EXCEPT !.text = res.v])
           ELSE IF res.ok
             THEN SttEmptyTranscript
           ELSE SttFailed(res.v)
    /\ UNCHANGED <<workersFrame, stt_rx, tts_rx, tts_pc, tts_cur, ws_in, ws_n, pcm_bytes,
                   expired, sent, taken>>

\* a variant of the injection step that tries a second time after a failure
SttInject_Retries(ok) ==
    /\ stt_pc = "inject"
    /\ calls' = IF ok THEN Append(calls, [op |-> "inject", by |-> "stt"])
                ELSE calls \o <<[op |-> "inject", by |-> "stt"],
                                [op |-> "inject", by |-> "stt"]>>
    /\ events' = events \o (IF ok THEN <<>> ELSE <<Ev("Error", "inject failed")>>)
                        \o <<Ev("SttBusy", "false")>>
    /\ stt_pc' = "recv"
    /\ stt_cur' = None
    /\ UNCHANGED <<workersFrame, stt_rx, tts_rx, tts_pc, tts_cur, ws_in, ws_n, pcm_bytes,
                   expired, sent, taken>>

\* `injector.inject_text(&text)` returns, then SttBusy(false)
SttInject(ok) ==
    /\ stt_pc = "inject"
    /\ calls' = Append(calls, [op |-> "inject", by |-> "stt"])
    /\ events' = events \o (IF ok THEN <<>> ELSE <<Ev("Error", "inject failed")>>)
                        \o <<Ev("SttBusy", "false")>>
    /\ stt_pc' = "recv"
    /\ stt_cur' = None
    /\ UNCHANGED <<workersFrame, stt_rx, tts_rx, tts_pc, tts_cur, ws_in, ws_n, pcm_bytes,
                   expired, sent, taken>>

(***************************************************************************)
(* The TTS worker (tts.rs 40-90) and its synthesis calls.                  *)
(***************************************************************************)
\* `tts_tx.send(req)` by the GUI's Speak Test or a control-plane listener
TtsSend(by, speak) ==
    /\ ItemsSent < MaxItems
    /\ tts_rx' = Append(tts_rx, TtsRequest(speak))
    /\ sent' = [sent EXCEPT !.tts = Append(@, TtsRequest(speak))]
    /\ UNCHANGED <<workersFrame, events, stt_rx, stt_pc, stt_cur, tts_pc, tts_cur, ws_in,
                   ws_n, pcm_bytes, expired, taken, calls>>

\* `chunks_exact(2).map(|c| i16::from_le_bytes([c[0], c[1]]))`
RECURSIVE pcm_from_le_bytes(_)
pcm_from_le_bytes(bytes) ==
    IF Len(bytes) < 2 THEN <<>>
    ELSE LET u == bytes[1] + 256 * bytes[2]
         IN <<IF u >= 32768 THEN u - 65536 ELSE u>>
              \o pcm_from_le_bytes(SubSeq(bytes, 3, Len(bytes)))

\* a variant of the empty-message check that skips the trim
MessageOf_Untrimmed(speak) == speak.message

\* `req.speak.message.trim().to_string()`
MessageOf(speak) == Trim(speak.message)

\* a variant of the worker's `match result` that releases the busy flag before playback
TtsResult_ReleasesEarly(res) ==
    IF res.ok
      THEN /\ events' = events \o <<Ev("Info", "tts provider used: "
                                  \o tts_cur[1].provider \o " voice: " \o tts_cur[1].voice),
                                    Ev("TtsBusy", "false")>>
           /\ tts_pc' = "play"
           /\ tts_cur' = Some([tts_cur[1] EXCEPT !.pcm = res.v])
      ELSE /\ events' = events \o <<Ev("Error", "tts failed: " \o res.v),
                                    Ev("TtsBusy", "false")>>
           /\ tts_pc' = "recv"
           /\ tts_cur' = None

\* the worker's `match result`: Ok goes on to playback, Err reports and ends the item
TtsResult(res) ==
    IF res.ok
      THEN /\ events' = Append(events, Ev("Info", "tts provider used: "
                                  \o tts_cur[1].provider \o " voice: " \o tts_cur[1].voice))
           /\ tts_pc' = "play"
           /\ tts_cur' = Some([tts_cur[1] EXCEPT !.pcm = res.v])
      ELSE /\ events' = events \o <<Ev("Error", "tts failed: " \o res.v),
                                    Ev("TtsBusy", "false")>>
           /\ tts_pc' = "recv"
           /\ tts_cur' = None

\* `while let Ok(req) = tts_rx.recv()` up to the call of synthesize_with_provider
TtsRecv ==
    /\ tts_pc = "recv"
    /\ tts_rx # <<>>
    /\ cfg_lock = "free"
    /\ cfg_lock' = LockAfterClone("tts")
    /\ tts_rx' = Tail(tts_rx)
    /\ taken' = [taken EXCEPT !.tts = Append(@, Dequeue(tts_rx))]
    /\ LET speak == Dequeue(tts_rx).speak
           message == MessageOf(speak)
           show_text == IF speak.show_text # None THEN speak.show_text[1]
                        ELSE config.show_endpoint_text
           provider == IF speak.provider # None THEN speak.provider[1]
                       ELSE config.tts_provider
           style == IF speak.style # None THEN speak.style[1] ELSE config.xai_tts_style
       IN IF message = ""
            THEN /\ events' = events \o <<Ev("TtsBusy", "true"),
                                          Ev("Warning", "empty speak message"),
                                          Ev("TtsBusy", "false")>>
                 /\ UNCHANGED <<tts_pc, tts_cur>>
            ELSE /\ events' = events \o <<Ev("TtsBusy", "true")>>
                       \o (IF show_text THEN <<Ev("LastSpoken", message)>> ELSE <<>>)
                 /\ tts_pc' = "synth"
                 /\ tts_cur' = Some([speak |-> speak, message |-> message,
                                     provider |-> provider,
                                     voice |-> resolve_voice(config, speak, provider),
                                     style |-> style, pcm |-> <<>>,
                                     current |-> config])
    /\ UNCHANGED <<workersBase, config, gui_pc, n_saves, stt_rx, stt_pc, stt_cur, ws_in,
                   ws_n, pcm_bytes, expired, sent, calls>>

(***************************************************************************)
(* Integer arithmetic of the sample paths.                                 *)
(***************************************************************************)
RECURSIVE SumSeq(_)
SumSeq(q) == IF q = <<>> THEN 0 ELSE Head(q) + SumSeq(Tail(q))

\* `/` on i32: the quotient rounded toward zero
TruncDiv(a, b) == IF a >= 0 THEN a \div b ELSE -((-a) \div b)

\* `as i16` on an i32
AsI16(x) == ((x + 32768) % 65536) - 32768

(***************************************************************************)
(* The WAV container: bytes are numbers 0..255, a container is a sequence  *)
(* of bytes.  pcm_to_wav_bytes (stt.rs 123-139) writes, through            *)
(* hound::WavWriter, the 44-byte header of mono 16-bit integer PCM and the *)
(* samples; decode_wav_to_i16 (tts.rs 378-451) walks the chunks.           *)
(***************************************************************************)
U16LE(n) == <<n % 256, (n \div 256) % 256>>
U32LE(n) == <<n % 256, (n \div 256) % 256, (n \div 65536) % 256, (n \div 16777216) % 256>>

\* the unsigned value of little-endian bytes
RECURSIVE FromLE(_)
FromLE(bytes) == IF bytes = <<>> THEN 0 ELSE Head(bytes) + 256 * FromLE(Tail(bytes))

\* `i16::to_le_bytes` of every sample, in order
RECURSIVE SamplesLE(_)
SamplesLE(samples) ==
    IF samples = <<>> THEN <<>>
    ELSE U16LE((Head(samples) + 65536) % 65536) \o SamplesLE(Tail(samples))

RIFF == <<82, 73, 70, 70>>
WAVE == <<87, 65, 86, 69>>
FmtId == <<102, 109, 116, 32>>
DataId == <<100, 97, 116, 97>>

\* pcm_to_wav_bytes: WavSpec { channels: 1, sample_rate, bits_per_sample: 16, Int }
pcm_to_wav_bytes(samples, sample_rate) ==
    Ok(RIFF \o U32LE(36 + 2 * Len(samples)) \o WAVE
       \o FmtId \o U32LE(16) \o U16LE(1) \o U16LE(1) \o U32LE(sample_rate)
       \o U32LE(sample_rate * 2) \o U16LE(2) \o U16LE(16)
       \o DataId \o U32LE(2 * Len(samples)) \o SamplesLE(samples))

\* `>>` on a signed integer: the quotient rounded down
Shr(v, bits) == v \div (2 ^ bits)

\* decode_wav_sample_to_i16 for the integer formats (the float formats, codes
\* (3, 32) and (3, 64), are not carried by any container used here)
decode_wav_sample_to_i16(format, bits_per_sample, bytes) ==
    CASE format = 1 /\ bits_per_sample = 8 -> Ok(AsI16((bytes[1] - 128) * 256))
      [] format = 1 /\ bits_per_sample = 16 -> Ok(AsI16(FromLE(bytes)))
      [] format = 1 /\ bits_per_sample = 24 ->
            Ok(AsI16(Shr(IF FromLE(bytes) >= 8388608 THEN FromLE(bytes) - 16777216
                         ELSE FromLE(bytes), 8)))
      [] format = 1 /\ bits_per_sample = 32 ->
            \* `(v >> 16) as i16`: the two high bytes of the i32
            Ok(AsI16(FromLE(SubSeq(bytes, 3, 4))))
      [] OTHER -> Err("unsupported wav format code")

\* the `while offset + 8 <= bytes.len()` loop: the fmt fields and the data slice
RECURSIVE ScanChunks(_, _, _)
ScanChunks(bytes, offset, fmt) ==
    IF offset + 8 > Len(bytes) THEN [fmt |-> fmt, data |-> None]
    ELSE LET chunk_id == SubSeq(bytes, offset + 1, offset + 4)
             chunk_size == FromLE(SubSeq(bytes, offset + 5, offset + 8))
             chunk_start == offset + 8
             chunk_end == IF chunk_start + chunk_size < Len(bytes)
                            THEN chunk_start + chunk_size ELSE Len(bytes)
             next == chunk_start + chunk_size + (chunk_size % 2)
         IN IF chunk_id = FmtId /\ chunk_end >= chunk_start + 16
              THEN ScanChunks(bytes, next,
                     Some([audio_format |-> FromLE(SubSeq(bytes, chunk_start + 1,
                                                          chunk_start + 2)),
                           channels |-> FromLE(SubSeq(bytes, chunk_start + 3,
                                                      chunk_start + 4)),
                           bits_per_sample |-> FromLE(SubSeq(bytes, chunk_start + 15,
                                                             chunk_start + 16))]))
            ELSE IF chunk_id = DataId
              THEN [fmt |-> fmt, data |-> Some(SubSeq(bytes, chunk_start + 1, chunk_end))]
            ELSE ScanChunks(bytes, next, fmt)

\* one frame: the channels' samples summed, then `(sum / ch as i32) as i16`
DecodeFrame(f, frame, sample_bytes) ==
    LET each == [c \in 1..f.channels |->
                   decode_wav_sample_to_i16(f.audio_format, f.bits_per_sample,
                       SubSeq(frame, (c - 1) * sample_bytes + 1, c * sample_bytes))]
    IN IF \E c \in 1..f.channels : ~each[c].ok
         THEN Err("unsupported wav format code")
         ELSE Ok(AsI16(TruncDiv(SumSeq([c \in 1..f.channels |-> each[c].v]), f.channels)))

\* decode_wav_to_i16: the samples of the data chunk, downmixed to mono
decode_wav_to_i16(bytes) ==
    IF Len(bytes) < 12 \/ SubSeq(bytes, 1, 4) # RIFF \/ SubSeq(bytes, 9, 12) # WAVE
      THEN Err("invalid wav header")
    ELSE LET found == ScanChunks(bytes, 12, None) IN
      IF found.fmt = None THEN Err("wav fmt chunk missing")
      ELSE IF found.data = None THEN Err("wav data chunk missing")
      ELSE LET f == found.fmt[1]
               data == found.data[1]
               sample_bytes == f.bits_per_sample \div 8
               frame_bytes == sample_bytes * f.channels
           IN IF sample_bytes = 0 THEN Err("invalid wav sample size")
              ELSE IF frame_bytes = 0 THEN Err("invalid wav frame size")
              ELSE LET frames == [k \in 1..(Len(data) \div frame_bytes) |->
                                    DecodeFrame(f, SubSeq(data, (k - 1) * frame_bytes + 1,
                                                          k * frame_bytes), sample_bytes)]
                   IN IF \E k \in 1..Len(frames) : ~frames[k].ok
                        THEN Err("unsupported wav format code")
                        ELSE Ok([k \in 1..Len(frames) |-> frames[k].v])

\* what the provider answers to the HTTP speech request (openai_tts)
TtsReplies ==
    { [kind |-> "send error", bytes |-> <<>>],
      [kind |-> "status 500", bytes |-> <<>>],
      [kind |-> "pcm", bytes |-> <<1, 0, 255, 255>>],
      [kind |-> "wav", bytes |-> pcm_to_wav_bytes(<<1>>, 24000).v] }


openai_tts(ans, response_format) ==
    CASE ans.kind = "send error" -> Err("send error")
      [] ans.kind = "status 500" -> Err("HTTP 500")
      [] response_format = "pcm" -> Ok(pcm_from_le_bytes(ans.bytes))
      [] response_format = "wav" -> decode_wav_to_i16(ans.bytes)
      [] OTHER -> Err("unsupported response_format")

\* what `connect` and the three `ws.send(..)?` of xai_realtime_tts come to: the
\* connection fails, the first, second or third send fails, or all succeed
XaiConnects == {"connected", "connect error", "send 1 error", "send 2 error", "send 3 error"}

\* how many of the three sends succeed
SendsDone(conn) ==
    CASE conn = "connect error" -> 0
      [] conn = "send 1 error" -> 0
      [] conn = "send 2 error" -> 1
      [] conn = "send 3 error" -> 2
      [] OTHER -> 3

\* the error `?` propagates out of xai_realtime_tts
XaiError(conn) == IF conn = "connect error" THEN "connect error" ELSE "send error"

Sent(type) == [op |-> "send " \o type, by |-> "tts"]

\* a variant that asks for the response before the session is configured
XaiMessages_ResponseFirst ==
    <<Sent("response.create"), Sent("session.update"), Sent("conversation.item.create")>>

\* send_session_update, then send_message_and_response: the `type` of each message
XaiMessages ==
    <<Sent("session.update"), Sent("conversation.item.create"), Sent("response.create")>>

\* synthesize_with_provider returns, or (xai) the streaming read loop starts
TtsSynth(ans, conn) ==
    /\ tts_pc = "synth"
    /\ LET cur == tts_cur[1] IN
        IF cur.provider \notin env_keys
          THEN /\ TtsResult(Err("API key missing"))
               /\ UNCHANGED <<calls, ws_in, ws_n, pcm_bytes, expired>>
        ELSE IF cur.provider = "groq" /\ GroqTooLong(cur.message)
          THEN /\ TtsResult(Err("Groq Orpheus input max is 200 chars"))
               /\ UNCHANGED <<calls, ws_in, ws_n, pcm_bytes, expired>>
        ELSE IF cur.provider = "xai"
          THEN /\ calls' = Append(calls, [op |-> "synth", by |-> "tts"])
                             \o SubSeq(XaiMessages, 1, SendsDone(conn))
               /\ IF conn = "connected"
                    THEN /\ tts_pc' = "loop"
                         /\ ws_in' = None
                         /\ ws_n' = 0
                         /\ pcm_bytes' = <<>>
                         /\ expired' = FALSE
                         /\ UNCHANGED <<events, tts_cur>>
                    ELSE /\ TtsResult(Err(XaiError(conn)))
                         /\ UNCHANGED <<ws_in, ws_n, pcm_bytes, expired>>
        ELSE /\ calls' = Append(calls, [op |-> "synth", by |-> "tts"])
             /\ TtsResult(openai_tts(ans, IF cur.provider = "openai" THEN "pcm" ELSE "wav"))
             /\ UNCHANGED <<ws_in, ws_n, pcm_bytes, expired>>
    /\ UNCHANGED <<workersFrame, stt_rx, tts_rx, stt_pc, stt_cur, sent, taken>>

\* play_pcm_24k_mono returns (after sleep_until_end), then TtsBusy(false)
TtsPlay(ok) ==
    /\ tts_pc = "play"
    /\ calls' = Append(calls, [op |-> "play", by |-> "tts"])
    /\ events' = events \o (IF ok THEN <<>> ELSE <<Ev("Error", "audio playback failed")>>)
                        \o <<Ev("TtsBusy", "false")>>
    /\ tts_pc' = "recv"
    /\ tts_cur' = None
    /\ UNCHANGED <<workersFrame, stt_rx, tts_rx, stt_pc, stt_cur, ws_in, ws_n, pcm_bytes,
                   expired, sent, taken>>

(***************************************************************************)
(* read_audio_until_done (tts.rs 270-316): the streaming read loop, the    *)
(* peer that sends frames, and the clock.                                  *)
(***************************************************************************)
Frame(msg, type, audio) == [msg |-> msg, type |-> type, audio |-> audio]

\* base64 payloads: decoded bytes, or not ok when the text does not decode; None when absent
B64(bytes) == Some([ok |-> TRUE, v |-> bytes])
BadB64 == Some([ok |-> FALSE, v |-> <<>>])

\* frames after which the loop goes round again
PassingFrames ==
    { Frame("text", "response.output_audio.delta", B64(<<1, 0>>)),
      Frame("text", "response.audio.delta", B64(<<7>>)),
      Frame("text", "response.audio.delta", None),
      Frame("text", "response.output_item.done", B64(<<255, 255>>)),
      Frame("text", "session.updated", None),
      Frame("binary", "", None) }

\* frames that end the call
EndingFrames ==
    { Frame("text", "response.done", None),
      Frame("text", "error", None),
      Frame("text", "not json", None),
      Frame("text", "response.audio.delta", BadB64),
      Frame("closed", "", None) }

\* the peer sends one frame
PeerFrame(f) ==
    /\ tts_pc \in {"loop", "read"}
    /\ ws_in = None
    /\ f \in PassingFrames => ws_n < MaxFrames
    /\ ws_in' = Some(f)
    /\ ws_n' = IF f \in PassingFrames THEN ws_n + 1 ELSE ws_n
    /\ UNCHANGED <<workersFrame, events, stt_rx, tts_rx, stt_pc, stt_cur, tts_pc, tts_cur,
                   pcm_bytes, expired, sent, taken, calls>>

\* 20 seconds have passed since `start`
Tick ==
    /\ tts_pc \in {"loop", "read"}
    /\ ~expired
    /\ expired' = TRUE
    /\ UNCHANGED <<workersFrame, events, stt_rx, tts_rx, stt_pc, stt_cur, tts_pc, tts_cur,
                   ws_in, ws_n, pcm_bytes, sent, taken, calls>>

\* loop top: `if start.elapsed() > Duration::from_secs(20)`
WsLoopTop ==
    /\ tts_pc = "loop"
    /\ IF expired
         THEN TtsResult(Err("xAI realtime timed out"))
         ELSE /\ tts_pc' = "read"
              /\ UNCHANGED <<events, tts_cur>>
    /\ UNCHANGED <<workersFrame, stt_rx, tts_rx, stt_pc, stt_cur, ws_in, ws_n, pcm_bytes,
                   expired, sent, taken, calls>>

\* a variant of the loop body that treats an error event like response.done
OnFrame_ErrorEndsStream(f) ==
    CASE f.msg = "closed" -> [go |-> "fail", bytes |-> <<>>, err |-> "read error"]
      [] f.msg = "binary" -> [go |-> "loop", bytes |-> <<>>, err |-> ""]
      [] f.type = "not json" -> [go |-> "fail", bytes |-> <<>>, err |-> "json error"]
      [] f.type \in {"response.output_audio.delta", "response.audio.delta",
                     "response.output_item.done"} ->
            IF f.audio = None THEN [go |-> "loop", bytes |-> <<>>, err |-> ""]
            ELSE IF f.audio[1].ok THEN [go |-> "loop", bytes |-> f.audio[1].v, err |-> ""]
            ELSE [go |-> "fail", bytes |-> <<>>, err |-> "base64 error"]
      [] f.type \in {"response.done", "error"} ->
            [go |-> "break", bytes |-> <<>>, err |-> ""]
      [] OTHER -> [go |-> "loop", bytes |-> <<>>, err |-> ""]

\* the loop body on one message: go round again (extending pcm_bytes), break, or fail
OnFrame(f) ==
    CASE f.msg = "closed" -> [go |-> "fail", bytes |-> <<>>, err |-> "read error"]
      [] f.msg = "binary" -> [go |-> "loop", bytes |-> <<>>, err |-> ""]
      [] f.type = "not json" -> [go |-> "fail", bytes |-> <<>>, err |-> "json error"]
      [] f.type \in {"response.output_audio.delta", "response.audio.delta",
                     "response.output_item.done"} ->
            IF f.audio = None THEN [go |-> "loop", bytes |-> <<>>, err |-> ""]
            ELSE IF f.audio[1].ok THEN [go |-> "loop", bytes |-> f.audio[1].v, err |-> ""]
            ELSE [go |-> "fail", bytes |-> <<>>, err |-> "base64 error"]
      [] f.type = "response.done" -> [go |-> "break", bytes |-> <<>>, err |-> ""]
      [] f.type = "error" ->
            [go |-> "fail", bytes |-> <<>>, err |-> "xAI realtime returned error"]
      [] OTHER -> [go |-> "loop", bytes |-> <<>>, err |-> ""]

\* `ws.read()?` returns a message (it blocks while there is none) and the loop
\* body runs on it
WsRead ==
    /\ tts_pc = "read"
    /\ ws_in # None
    /\ ws_in' = None
    /\ LET r == OnFrame(ws_in[1]) IN
        CASE r.go = "loop" ->
                /\ pcm_bytes' = pcm_bytes \o r.bytes
                /\ tts_pc' = "loop"
                /\ UNCHANGED <<events, tts_cur>>
          [] r.go = "break" ->
                /\ TtsResult(Ok(pcm_from_le_bytes(pcm_bytes)))
                /\ UNCHANGED pcm_bytes
          [] r.go = "fail" ->
                /\ TtsResult(Err(r.err))
                /\ UNCHANGED pcm_bytes
    /\ UNCHANGED <<workersFrame, stt_rx, tts_rx, stt_pc, stt_cur, ws_n, expired, sent,
                   taken, calls>>

(***************************************************************************)
(* The pipelines before anything was sent to them.                         *)
(***************************************************************************)
WorkersAtRest ==
    /\ config = DefaultConfig
    /\ env_keys = {}
    /\ stt_pc = "recv"
    /\ stt_cur = None
    /\ tts_pc = "recv"
    /\ tts_cur = None
    /\ ws_in = None
    /\ ws_n = 0
    /\ pcm_bytes = <<>>
    /\ expired = FALSE
    /\ sent = [stt |-> <<>>, tts |-> <<>>]
    /\ taken = [stt |-> <<>>, tts |-> <<>>]
    /\ calls = <<>>

(***************************************************************************)
(* Specification of the control plane: the supervisor, its listeners, the  *)
(* callers of ServerControl and the HTTP clients.  The hotkey worker and   *)
(* the recorder are at rest.                                               *)
(***************************************************************************)
\* the GUI's drafts as made from the configuration the supervisor starts
\* with, and every receiver alive
AppAtRest ==
    /\ draft = [server_port |-> 8000, tts_bridge_enabled |-> FALSE]
    /\ rx_gone = {}

GuiAtRest ==
    /\ cfg_lock = "free"
    /\ gui_pc = "idle"
    /\ n_saves = 0

CodecAtRest ==
    /\ device = [format |-> "i16", channels |-> 1]
    /\ cb_data = None
    /\ wav_in = [samples |-> <<>>, sample_rate |-> 24000]
    /\ wav_bytes = None
    /\ wav_out = None

HotkeyAtRest ==
    /\ hotkey_str = <<>>
    /\ hk_pc = "boot"
    /\ spec = None
    /\ st = [ctrl |-> FALSE, shift |-> FALSE, alt |-> FALSE, meta |-> FALSE,
             pressed_non_mod |-> {}]
    /\ was_active = FALSE
    /\ n_keys = 0
    /\ held = {}
    /\ backend = "hook"

AudioAtRest ==
    /\ capturing = FALSE
    /\ buffer = <<>>
    /\ stt_rx = <<>>
    /\ rec_calls = <<>>
    /\ au_pc = [c \in Callers |-> "idle"]
    /\ cb_pc = None
    /\ n_samples = 0
    /\ cb_win = 0

ServerAtRest ==
    /\ cmd_rx = <<>>
    /\ enabled = FALSE
    /\ port = 8000
    /\ running = None
    /\ active = None
    /\ sup_pc = "init"
    /\ cmd = None
    /\ listeners = <<>>
    /\ tts_rx = <<>>
    /\ reply = None
    /\ n_cmds = 0
    /\ n_served = 0
    /\ n_binds = 0
    /\ last_bind = "none"

\* spawn_server_controller(initial_enabled, initial_port, ..): any configuration
InitServer ==
    /\ cmd_rx = <<>>
    /\ enabled \in BOOLEAN
    /\ port \in Ports
    /\ running = None
    /\ active = None
    /\ sup_pc = "init"
    /\ cmd = None
    /\ listeners = <<>>
    /\ tts_rx = <<>>
    /\ reply = None
    /\ n_cmds = 0
    /\ n_served = 0
    /\ n_binds = 0
    /\ last_bind = "none"
    /\ events = <<>>
    /\ HotkeyAtRest
    /\ AudioAtRest
    /\ WorkersAtRest
    /\ GuiAtRest
    /\ AppAtRest
    /\ CodecAtRest

NextServer ==
    \/ \E b \in BOOLEAN : set_enabled(b) /\ UNCHANGED <<hotkeyVars, audioVars, workerVars, guiVars, appVars, codecVars>>
    \/ \E p \in Ports : set_port(p) /\ UNCHANGED <<hotkeyVars, audioVars, workerVars, guiVars, appVars, codecVars>>
    \/ SupInit /\ UNCHANGED <<hotkeyVars, audioVars, workerVars, guiVars, appVars, codecVars>>
    \/ SupRecv /\ UNCHANGED <<hotkeyVars, audioVars, workerVars, guiVars, appVars, codecVars>>
    \/ SupJoin /\ UNCHANGED <<hotkeyVars, audioVars, workerVars, guiVars, appVars, codecVars>>
    \/ \E i \in ListenerIds : LsnOnline(i) /\ UNCHANGED <<hotkeyVars, audioVars, workerVars, guiVars, appVars, codecVars>>
    \/ \E i \in ListenerIds : LsnPoll(i) /\ UNCHANGED <<hotkeyVars, audioVars, workerVars, guiVars, appVars, codecVars>>
    \/ \E i \in ListenerIds : LsnTimeout(i) /\ UNCHANGED <<hotkeyVars, audioVars, workerVars, guiVars, appVars, codecVars>>
    \/ \E i \in ListenerIds : LsnRecvError(i) /\ UNCHANGED <<hotkeyVars, audioVars, workerVars, guiVars, appVars, codecVars>>
    \/ \E i \in ListenerIds, req \in Requests :
            LsnRequest(i, req) /\ UNCHANGED <<hotkeyVars, audioVars, workerVars, guiVars, appVars, codecVars>>

SpecServer == InitServer /\ [][NextServer]_vars

\* the control plane started disabled on port 8000
InitServerOff ==
    /\ ServerAtRest
    /\ events = <<>>
    /\ HotkeyAtRest
    /\ AudioAtRest
    /\ WorkersAtRest
    /\ GuiAtRest
    /\ AppAtRest
    /\ CodecAtRest

SpecServerOff == InitServerOff /\ [][NextServer]_vars

\* what a control-plane step leaves alone
serverFrame == <<hotkeyVars, audioVars, workerVars, guiVars, appVars, codecVars>>

\* The threads of the control plane keep running: the supervisor returns from
\* a join whose thread has ended and takes a command that is waiting; a
\* listener announces itself, tests the stop channel at the loop top, and its
\* recv_timeout(200ms) returns (with a request, a timeout or an error).
ServerFairness ==
    /\ WF_vars(SupInit /\ UNCHANGED serverFrame)
    /\ WF_vars(SupRecv /\ UNCHANGED serverFrame)
    /\ WF_vars(SupJoin /\ UNCHANGED serverFrame)
    /\ \A i \in ListenerIds :
          /\ WF_vars(LsnOnline(i) /\ UNCHANGED serverFrame)
          /\ WF_vars(LsnPoll(i) /\ UNCHANGED serverFrame)
          /\ WF_vars((\/ LsnTimeout(i)
                      \/ LsnRecvError(i)
                      \/ \E req \in Requests : LsnRequest(i, req)) /\ UNCHANGED serverFrame)

SpecServerLive == InitServer /\ [][NextServer]_vars /\ ServerFairness

(***************************************************************************)
(* Properties of the control plane (checked under SpecServer).             *)
(***************************************************************************)
HasEvent(type, arg) == \E k \in 1..Len(events) : events[k] = Ev(type, arg)

\* the supervisor step that ends the processing of a command
CommandDone ==
    /\ sup_pc' = "recv"
    /\ \/ sup_pc = "join"
       \/ sup_pc = "recv" /\ Len(cmd_rx') < Len(cmd_rx)

\* the handle the supervisor held when it began processing the command
HandleBefore == IF sup_pc = "join" THEN active ELSE running

\* a listener step that received and answered a request
Served == n_served' = n_served + 1

\* C1: in every reachable state at most one listener thread is alive and holds
\* a bound socket, and while the supervisor waits in the join of stop_server it
\* holds no running handle (the new bind comes only after the join).
C1_AtMostOneListener ==
    /\ Cardinality(DOMAIN listeners) <= 1
    /\ sup_pc = "join" => running = None /\ active # None

\* C1 witness: a listener bound to 9000 has replaced one that was online on 8000.
C1_Witness ==
    /\ HasEvent("ServerOnline", Endpoint(8000))
    /\ \E i \in DOMAIN listeners : listeners[i].port = 9000
    /\ sup_pc = "recv"

\* C2: when the supervisor, enabled and holding a handle on port P, finishes
\* processing set_port(Q) with Q # P without a failed bind, exactly one
\* listener is bound, it is bound to Q, and none is bound to P.
C2_SetPortSwapsListener ==
    [][ ( /\ CommandDone
          /\ cmd' # None
          /\ cmd'[1].cmd = "SetPort"
          /\ enabled'
          /\ HandleBefore # None
          /\ HandleBefore[1].port # cmd'[1].next
          /\ ~(n_binds' > n_binds /\ last_bind' = "fail") )
        => ( /\ Cardinality(DOMAIN listeners') = 1
             /\ \A i \in DOMAIN listeners' : listeners'[i].port = cmd'[1].next
             /\ running' # None
             /\ running'[1].port = cmd'[1].next ) ]_vars

\* C2 witness: set_port(9000) was the last command processed, the old listener
\* had been online on 8000, and the listener now alive is bound to 9000.
C2_Witness ==
    /\ sup_pc = "recv"
    /\ cmd = Some(SetPortCmd(9000))
    /\ HasEvent("ServerOnline", Endpoint(8000))
    /\ running # None
    /\ \E i \in DOMAIN listeners : listeners[i].port = 9000

\* C3: whenever the supervisor is back in cmd_rx.recv() (after the initial
\* reconciliation and after every command): disabled implies no handle and no
\* listener thread; enabled with the last bind successful implies a handle
\* whose port is the desired port.
C3_Reconciled ==
    sup_pc = "recv" =>
        /\ ~enabled => running = None /\ DOMAIN listeners = {}
        /\ enabled /\ last_bind = "ok" => running # None /\ running[1].port = port
        /\ running # None => running[1].port = port

\* C3 witness: disabled again after a listener had been started, nothing left running.
C3_Witness ==
    /\ sup_pc = "recv"
    /\ ~enabled
    /\ last_bind = "ok"
    /\ cmd = Some(SetEnabledCmd(FALSE))
    /\ running = None

\* C4: a failed bind appends an Error event (then ServerOffline), leaves
\* running = None and the supervisor back in recv with no listener spawned;
\* binds happen only while a command (or the initial reconciliation) is being
\* processed, at most one per command; and the next command received while
\* enabled, after a failed bind, binds again.
C4_BindFailure ==
    /\ [][ /\ (n_binds' > n_binds /\ last_bind' = "fail") =>
                /\ events' = events \o <<Ev("Error", "server start failed"),
                                         Ev("ServerOffline", "")>>
                /\ running' = None
                /\ sup_pc' = "recv"
                /\ listeners' = listeners
           /\ n_binds' > n_binds =>
                \/ sup_pc = "init"
                \/ sup_pc = "join"
                \/ Len(cmd_rx') < Len(cmd_rx)
           /\ ( /\ sup_pc = "recv"
                /\ last_bind = "fail"
                /\ running = None
                /\ Len(cmd_rx') < Len(cmd_rx)
                /\ enabled' ) => n_binds' = n_binds + 1 ]_vars
    /\ [](n_binds <= (n_cmds - Len(cmd_rx)) + 1)

\* C4 witness: a bind failed and a later command's bind succeeded.
C4_Witness ==
    /\ HasEvent("Error", "server start failed")
    /\ last_bind = "ok"
    /\ n_binds >= 2
    /\ running # None

C6_HealthAlwaysOk ==
    [][ (Served /\ reply'[1].req.method = "GET" /\ reply'[1].req.url = "/health") =>
          /\ reply'[1].resp = json_response("{\"ok\":true}", 200)
          /\ tts_rx' = tts_rx
          /\ events' = events ]_vars

\* C6 witness: /health answered 200 while a speak request is queued.
C6_Witness ==
    /\ reply # None
    /\ reply[1].req.url = "/health"
    /\ reply[1].req.method = "GET"
    /\ reply[1].resp.status = 200
    /\ tts_rx # <<>>

(***************************************************************************)
(* The audio recorder (audio.rs).  The device callback and the callers of  *)
(* start_capture / stop_capture share `capturing` (an atomic) and `buffer` *)
(* (behind a mutex): each step below is one atomic access.  The callback's *)
(* chunk is taken as already mono (channels = 1).                          *)
(***************************************************************************)
Chunks == {<<1>>, <<2>>}

\* capture windows opened so far: windows whose clear is done
WindowsOpened ==
    Cardinality({i \in 1..Len(rec_calls) : rec_calls[i].op = "start"})
        + Cardinality({c \in Callers : au_pc[c] = "cleared"})

\* device callback, first half: `if capturing.load(Relaxed)`
CbLoad(data) ==
    /\ cb_pc = None
    /\ capturing
    /\ Len(buffer) + Len(data) <= MaxBuf
    /\ cb_pc' = Some(data)
    /\ cb_win' = WindowsOpened
    /\ UNCHANGED <<capturing, buffer, stt_rx, rec_calls, au_pc, n_samples>>

\* device callback, second half: `buffer.lock()` and `extend_from_slice(&mono)`
CbAppend ==
    /\ cb_pc # None
    /\ buffer' = buffer \o cb_pc[1]
    /\ cb_pc' = None
    /\ n_samples' = n_samples + Len(cb_pc[1])
    /\ UNCHANGED <<capturing, stt_rx, rec_calls, au_pc, cb_win>>

\* what stop_capture leaves in the buffer: `b.clone()` copies, the buffer stays
BufferAfterStop(buf) == buf

Call(op, by, ret) == [op |-> op, by |-> by, ret |-> ret]

\* start_capture, first half: `buffer.lock()` and `buf.clear()`
StartClear(c) ==
    /\ au_pc[c] = "idle"
    /\ buffer' = <<>>
    /\ au_pc' = [au_pc EXCEPT ![c] = "cleared"]
    /\ UNCHANGED <<capturing, stt_rx, rec_calls, cb_pc, n_samples, cb_win>>

\* start_capture, second half: `capturing.store(true, Relaxed)`
StartStore(c) ==
    /\ au_pc[c] = "cleared"
    /\ capturing' = TRUE
    /\ au_pc' = [au_pc EXCEPT ![c] = "open"]
    /\ rec_calls' = Append(rec_calls, Call("start", c, buffer))
    /\ UNCHANGED <<buffer, stt_rx, cb_pc, n_samples, cb_win>>

\* stop_capture, first half: `capturing.store(false, Relaxed)`
StopStore(c) ==
    /\ au_pc[c] = "open"
    /\ capturing' = FALSE
    /\ au_pc' = [au_pc EXCEPT ![c] = "stopping"]
    /\ UNCHANGED <<buffer, stt_rx, rec_calls, cb_pc, n_samples, cb_win>>

\* stop_capture, second half: `buffer.lock().map(|b| b.clone())`, and the
\* caller's `if !audio.is_empty() { stt_tx.send(audio) }`
StopClone(c) ==
    /\ au_pc[c] = "stopping"
    /\ buffer' = BufferAfterStop(buffer)
    /\ rec_calls' = Append(rec_calls, Call("stop", c, buffer))
    /\ stt_rx' = IF buffer # <<>> THEN Append(stt_rx, buffer) ELSE stt_rx
    /\ au_pc' = [au_pc EXCEPT ![c] = "idle"]
    /\ UNCHANGED <<capturing, cb_pc, n_samples, cb_win>>

\* start_capture as one step of its caller (no other caller inside the recorder)
start_capture(c) ==
    /\ buffer' = <<>>
    /\ capturing' = TRUE
    /\ rec_calls' = Append(rec_calls, Call("start", c, <<>>))

\* stop_capture as one step of its caller; the value returned is `buffer`
stop_capture(c) ==
    /\ capturing' = FALSE
    /\ buffer' = BufferAfterStop(buffer)
    /\ rec_calls' = Append(rec_calls, Call("stop", c, buffer))

(***************************************************************************)
(* The hotkey worker (hotkey.rs).  A configured chord string is the        *)
(* sequence of its '+'-separated tokens ("".split('+') is one empty        *)
(* token).  Keys are rdev::Key names.                                      *)
(***************************************************************************)
RawTokens == {"ctrl", "control", "shift", "alt", "win", "space", "enter",
              "a", "1", "#", "f1", "", " Ctrl", "SHIFT"}

\* `s.trim().to_lowercase()` on the tokens above
TrimLower(raw) ==
    CASE raw = " Ctrl" -> "ctrl"
      [] raw = "SHIFT" -> "shift"
      [] OTHER -> raw

\* `token.len()` on the trimmed tokens above
TokenLen(token) ==
    CASE token \in {"a", "1", "#"} -> 1
      [] token = "" -> 0
      [] token = "f1" -> 2
      [] token \in {"alt", "win"} -> 3
      [] token = "ctrl" -> 4
      [] token \in {"shift", "space", "enter"} -> 5
      [] OTHER -> 7

\* map_alpha_numeric(ch.to_ascii_uppercase()) on the one-character tokens above
map_alpha_numeric(ch) ==
    CASE ch = "a" -> Some("KeyA")
      [] ch = "1" -> Some("Num1")
      [] OTHER -> None

EmptySpec == [require_ctrl |-> FALSE, require_shift |-> FALSE, require_alt |-> FALSE,
              require_meta |-> FALSE, key |-> None]

\* the body of the `for token in ...` loop of parse_hotkey_spec
ParseToken(sp, token) ==
    CASE token \in {"ctrl", "control"} -> [sp EXCEPT !.require_ctrl = TRUE]
      [] token = "shift" -> [sp EXCEPT !.require_shift = TRUE]
      [] token = "alt" -> [sp EXCEPT !.require_alt = TRUE]
      [] token \in {"win", "window", "meta", "super"} -> [sp EXCEPT !.require_meta = TRUE]
      [] token = "space" -> [sp EXCEPT !.key = Some("Space")]
      [] token = "enter" -> [sp EXCEPT !.key = Some("Return")]
      [] token \in {"backtick", "grave"} -> [sp EXCEPT !.key = Some("BackQuote")]
      [] OTHER -> IF TokenLen(token) = 1
                    THEN [sp EXCEPT !.key = map_alpha_numeric(token)]
                    ELSE sp

RECURSIVE ParseTokens(_, _)
ParseTokens(sp, tokens) ==
    IF tokens = <<>> THEN sp
    ELSE ParseTokens(ParseToken(sp, TrimLower(Head(tokens))), Tail(tokens))

NoRequirement(sp) ==
    /\ ~(sp.require_ctrl \/ sp.require_shift \/ sp.require_alt \/ sp.require_meta)
    /\ sp.key = None

\* parse_hotkey_spec: Option<HotkeySpec>
parse_hotkey_spec(input) ==
    LET sp == ParseTokens(EmptySpec, input)
    IN IF NoRequirement(sp) THEN None ELSE Some(sp)

\* the built-in chord of spawn_hotkey_worker's unwrap_or_else
DefaultSpec == [require_ctrl |-> TRUE, require_shift |-> TRUE, require_alt |-> FALSE,
                require_meta |-> FALSE, key |-> None]

\* worker start: read the configured string, parse it or fall back, announce
HkBoot ==
    /\ hk_pc = "boot"
    /\ LET parsed == parse_hotkey_spec(hotkey_str)
       IN /\ spec' = IF parsed # None THEN parsed ELSE Some(DefaultSpec)
          /\ events' = events
                \o (IF parsed # None THEN <<>>
                    ELSE <<Ev("Warning", "hotkey invalid, defaulting to ctrl+shift")>>)
                \o <<Ev("Info", "hotkey active")>>
                \o (IF backend = "poll"
                      THEN <<Ev("Info", "hotkey backend: windows key-state polling")>>
                      ELSE <<>>)
    /\ hk_pc' = "run"
    /\ UNCHANGED <<hotkey_str, st, was_active, n_keys, held, backend, audioVars>>

(***************************************************************************)
(* KeyState and chord satisfaction.                                        *)
(***************************************************************************)
Keys == {"ControlLeft", "ControlRight", "ShiftLeft", "Alt", "MetaLeft", "KeyA", "Space"}

KeyPress(k)   == [kind |-> "KeyPress", key |-> k]
KeyRelease(k) == [kind |-> "KeyRelease", key |-> k]
OtherEvent    == [kind |-> "MouseMove", key |-> ""]

is_modifier_key(key) ==
    key \in {"ControlLeft", "ControlRight", "ShiftLeft", "ShiftRight",
             "Alt", "AltGr", "MetaLeft", "MetaRight"}

set_modifier_state(state, key, pressed) ==
    CASE key \in {"ControlLeft", "ControlRight"} -> [state EXCEPT !.ctrl = pressed]
      [] key \in {"ShiftLeft", "ShiftRight"} -> [state EXCEPT !.shift = pressed]
      [] key \in {"Alt", "AltGr"} -> [state EXCEPT !.alt = pressed]
      [] key \in {"MetaLeft", "MetaRight"} -> [state EXCEPT !.meta = pressed]
      [] OTHER -> state

update_key_state(state, event) ==
    CASE event.kind = "KeyPress" ->
            LET s1 == set_modifier_state(state, event.key, TRUE)
            IN IF ~is_modifier_key(event.key)
                 THEN [s1 EXCEPT !.pressed_non_mod = @ \cup {event.key}]
                 ELSE s1
      [] event.kind = "KeyRelease" ->
            LET s1 == set_modifier_state(state, event.key, FALSE)
            IN IF ~is_modifier_key(event.key)
                 THEN [s1 EXCEPT !.pressed_non_mod = @ \ {event.key}]
                 ELSE s1
      [] OTHER -> state

\* a variant of is_hotkey_active that is satisfied by the primary key alone
is_hotkey_active_KeyOnly(state, sp) ==
    IF sp.key # None THEN sp.key[1] \in state.pressed_non_mod
    ELSE /\ sp.require_ctrl => state.ctrl
         /\ sp.require_shift => state.shift
         /\ sp.require_alt => state.alt
         /\ sp.require_meta => state.meta

is_hotkey_active(state, sp) ==
    IF sp.require_ctrl /\ ~state.ctrl THEN FALSE
    ELSE IF sp.require_shift /\ ~state.shift THEN FALSE
    ELSE IF sp.require_alt /\ ~state.alt THEN FALSE
    ELSE IF sp.require_meta /\ ~state.meta THEN FALSE
    ELSE IF sp.key # None THEN sp.key[1] \in state.pressed_non_mod
    ELSE TRUE

\* GetAsyncKeyState(vk) & 0x8000, on the virtual keys of the keys above
is_vk_down(vk) ==
    CASE vk = "VK_LCONTROL" -> "ControlLeft" \in held
      [] vk = "VK_RCONTROL" -> "ControlRight" \in held
      [] vk = "VK_LSHIFT" -> "ShiftLeft" \in held
      [] vk = "VK_RSHIFT" -> "ShiftRight" \in held
      [] vk = "VK_LMENU" -> "Alt" \in held
      [] vk = "VK_RMENU" -> "AltGr" \in held
      [] vk = "VK_LWIN" -> "MetaLeft" \in held
      [] vk = "VK_RWIN" -> "MetaRight" \in held
      [] vk = "VK_SPACE" -> "Space" \in held
      [] vk = "VK_RETURN" -> "Return" \in held
      [] vk = "A" -> "KeyA" \in held
      [] vk = "1" -> "Num1" \in held
      [] OTHER -> FALSE

key_to_vk(key) ==
    CASE key = "Space" -> Some("VK_SPACE")
      [] key = "Return" -> Some("VK_RETURN")
      [] key = "KeyA" -> Some("A")
      [] key = "Num1" -> Some("1")
      [] OTHER -> None

is_hotkey_active_windows(sp) ==
    IF sp.require_ctrl /\ ~(is_vk_down("VK_LCONTROL") \/ is_vk_down("VK_RCONTROL")) THEN FALSE
    ELSE IF sp.require_shift /\ ~(is_vk_down("VK_LSHIFT") \/ is_vk_down("VK_RSHIFT")) THEN FALSE
    ELSE IF sp.require_alt /\ ~(is_vk_down("VK_LMENU") \/ is_vk_down("VK_RMENU")) THEN FALSE
    ELSE IF sp.require_meta /\ ~(is_vk_down("VK_LWIN") \/ is_vk_down("VK_RWIN")) THEN FALSE
    ELSE IF sp.key # None
           THEN IF key_to_vk(sp.key[1]) # None THEN is_vk_down(key_to_vk(sp.key[1])[1])
                ELSE FALSE
    ELSE TRUE

(***************************************************************************)
(* The edge detector shared by both backends, and the two backends.        *)
(***************************************************************************)
\* a variant of the edge detector that restarts the capture on every event
\* that finds the chord satisfied
EdgeDetect_Retriggers(now_active) ==
    IF now_active THEN
        /\ start_capture("hotkey")
        /\ events' = Append(events, Ev("Listening", "true"))
        /\ was_active' = TRUE
        /\ UNCHANGED stt_rx
    ELSE IF was_active /\ ~now_active THEN
        /\ stop_capture("hotkey")
        /\ events' = Append(events, Ev("Listening", "false"))
        /\ stt_rx' = IF buffer # <<>> THEN Append(stt_rx, buffer) ELSE stt_rx
        /\ was_active' = FALSE
    ELSE UNCHANGED <<capturing, buffer, rec_calls, events, stt_rx, was_active>>

\* `if !was_active && now_active {..} else if was_active && !now_active {..}`
EdgeDetect(now_active) ==
    IF ~was_active /\ now_active THEN
        /\ start_capture("hotkey")
        /\ events' = Append(events, Ev("Listening", "true"))
        /\ was_active' = TRUE
        /\ UNCHANGED stt_rx
    ELSE IF was_active /\ ~now_active THEN
        /\ stop_capture("hotkey")
        /\ events' = Append(events, Ev("Listening", "false"))
        /\ stt_rx' = IF buffer # <<>> THEN ChanSend("stt", stt_rx, buffer) ELSE stt_rx
        /\ was_active' = FALSE
    ELSE UNCHANGED <<capturing, buffer, rec_calls, events, stt_rx, was_active>>

\* the rdev::listen callback on one event
HookEvent(event) ==
    /\ hk_pc = "run"
    /\ backend = "hook"
    /\ n_keys < MaxKeys
    /\ n_keys' = n_keys + 1
    /\ st' = update_key_state(st, event)
    /\ EdgeDetect(is_hotkey_active(st', spec[1]))
    /\ UNCHANGED <<hotkey_str, hk_pc, spec, backend, au_pc, cb_pc, n_samples, cb_win>>

\* a key goes down, or auto-repeats while down
HookKeyPress(k) ==
    /\ held' = held \cup {k}
    /\ HookEvent(KeyPress(k))

HookKeyRelease(k) ==
    /\ k \in held
    /\ held' = held \ {k}
    /\ HookEvent(KeyRelease(k))

\* any event that is neither a key press nor a key release
HookOtherEvent ==
    /\ held' = held
    /\ HookEvent(OtherEvent)

\* the keyboard under the polling backend: only the hardware state changes
PollKeyDown(k) ==
    /\ hk_pc = "run"
    /\ backend = "poll"
    /\ n_keys < MaxKeys
    /\ k \notin held
    /\ held' = held \cup {k}
    /\ n_keys' = n_keys + 1
    /\ UNCHANGED <<hotkey_str, hk_pc, spec, st, was_active, backend, events, audioVars>>

PollKeyUp(k) ==
    /\ hk_pc = "run"
    /\ backend = "poll"
    /\ n_keys < MaxKeys
    /\ k \in held
    /\ held' = held \ {k}
    /\ n_keys' = n_keys + 1
    /\ UNCHANGED <<hotkey_str, hk_pc, spec, st, was_active, backend, events, audioVars>>

\* one iteration of run_windows_hotkey_loop
HkPoll ==
    /\ hk_pc = "run"
    /\ backend = "poll"
    /\ EdgeDetect(is_hotkey_active_windows(spec[1]))
    /\ UNCHANGED <<hotkey_str, hk_pc, spec, st, n_keys, held, backend, au_pc, cb_pc, n_samples, cb_win>>

(***************************************************************************)
(* Specification of the hotkey worker: start-up, the keyboard, the edge    *)
(* detector driving the recorder, and the device callback.                 *)
(***************************************************************************)
ChordStrings ==
    { <<"ctrl", "shift">>, <<"ctrl", "space">>, <<"alt", "a">>, <<"win">>,
      <<"space">>, <<"shift", "win", "a">>, <<"">>, <<"ctrl", "f1">>, <<"a", "#">> }

InitHotkey ==
    /\ hotkey_str \in ChordStrings
    /\ backend \in {"hook", "poll"}
    /\ hk_pc = "boot"
    /\ spec = None
    /\ st = [ctrl |-> FALSE, shift |-> FALSE, alt |-> FALSE, meta |-> FALSE,
             pressed_non_mod |-> {}]
    /\ was_active = FALSE
    /\ n_keys = 0
    /\ held = {}
    /\ events = <<>>
    /\ AudioAtRest
    /\ ServerAtRest
    /\ WorkersAtRest
    /\ GuiAtRest
    /\ AppAtRest
    /\ CodecAtRest

NextHotkey ==
    \/ HkBoot /\ UNCHANGED <<serverVars, workerVars, guiVars, appVars, codecVars>>
    \/ \E k \in Keys : HookKeyPress(k) /\ UNCHANGED <<serverVars, workerVars, guiVars, appVars, codecVars>>
    \/ \E k \in Keys : HookKeyRelease(k) /\ UNCHANGED <<serverVars, workerVars, guiVars, appVars, codecVars>>
    \/ HookOtherEvent /\ UNCHANGED <<serverVars, workerVars, guiVars, appVars, codecVars>>
    \/ \E k \in Keys : PollKeyDown(k) /\ UNCHANGED <<serverVars, workerVars, guiVars, appVars, codecVars>>
    \/ \E k \in Keys : PollKeyUp(k) /\ UNCHANGED <<serverVars, workerVars, guiVars, appVars, codecVars>>
    \/ HkPoll /\ UNCHANGED <<serverVars, workerVars, guiVars, appVars, codecVars>>
    \/ \E d \in Chunks : CbLoad(d) /\ UNCHANGED <<serverVars, hotkeyVars, events, workerVars, guiVars, appVars, codecVars>>
    \/ CbAppend /\ UNCHANGED <<serverVars, hotkeyVars, events, workerVars, guiVars, appVars, codecVars>>

SpecHotkey == InitHotkey /\ [][NextHotkey]_vars

(***************************************************************************)
(* Specification of the worker's start-up over every short chord string.   *)
(***************************************************************************)
TokenSeqs == UNION { [1..n -> RawTokens] : n \in 1..MaxTokens }

InitParse ==
    /\ hotkey_str \in TokenSeqs
    /\ backend \in {"hook", "poll"}
    /\ hk_pc = "boot"
    /\ spec = None
    /\ st = [ctrl |-> FALSE, shift |-> FALSE, alt |-> FALSE, meta |-> FALSE,
             pressed_non_mod |-> {}]
    /\ was_active = FALSE
    /\ n_keys = 0
    /\ held = {}
    /\ events = <<>>
    /\ AudioAtRest
    /\ ServerAtRest
    /\ WorkersAtRest
    /\ GuiAtRest
    /\ AppAtRest
    /\ CodecAtRest

NextParse == HkBoot /\ UNCHANGED <<serverVars, workerVars, guiVars, appVars, codecVars>>

SpecParse == InitParse /\ [][NextParse]_vars

(***************************************************************************)
(* Specification of the recorder: its two callers (the hotkey worker and   *)
(* the GUI's manual-capture thread, one at a time) and the device          *)
(* callback, interleaved at each access to `capturing` and `buffer`.       *)
(***************************************************************************)
StartsSoFar ==
    Cardinality({i \in 1..Len(rec_calls) : rec_calls[i].op = "start"})
        + Cardinality({c \in Callers : au_pc[c] = "cleared"})

\* the caller's own bookkeeping around a completed start_capture
AfterStart(c) ==
    IF c = "hotkey"
      THEN /\ events' = Append(events, Ev("Listening", "true"))
           /\ was_active' = TRUE
      ELSE UNCHANGED <<events, was_active>>

\* the caller's own bookkeeping around a completed stop_capture
AfterStop(c) ==
    IF c = "hotkey"
      THEN /\ events' = Append(events, Ev("Listening", "false"))
           /\ was_active' = FALSE
      ELSE UNCHANGED <<events, was_active>>

InitAudio ==
    /\ AudioAtRest
    /\ events = <<>>
    /\ hotkey_str = <<"ctrl", "shift">>
    /\ hk_pc = "run"
    /\ spec = Some(DefaultSpec)
    /\ st = [ctrl |-> FALSE, shift |-> FALSE, alt |-> FALSE, meta |-> FALSE,
             pressed_non_mod |-> {}]
    /\ was_active = FALSE
    /\ n_keys = 0
    /\ held = {}
    /\ backend \in {"hook", "poll"}
    /\ ServerAtRest
    /\ WorkersAtRest
    /\ GuiAtRest
    /\ AppAtRest
    /\ CodecAtRest

audioFrame == <<serverVars, workerVars, guiVars, appVars, codecVars, hotkey_str, hk_pc, spec, st, n_keys, held, backend>>

NextAudio ==
    \/ \E c \in Callers :
          /\ StartsSoFar < MaxCalls
          /\ StartClear(c)
          /\ UNCHANGED <<audioFrame, events, was_active>>
    \/ \E c \in Callers : StartStore(c) /\ AfterStart(c) /\ UNCHANGED audioFrame
    \/ \E c \in Callers : StopStore(c) /\ UNCHANGED <<audioFrame, events, was_active>>
    \/ \E c \in Callers : StopClone(c) /\ AfterStop(c) /\ UNCHANGED audioFrame
    \/ \E d \in Chunks : CbLoad(d) /\ UNCHANGED <<audioFrame, events, was_active>>
    \/ CbAppend /\ UNCHANGED <<audioFrame, events, was_active>>

SpecAudio == InitAudio /\ [][NextAudio]_vars

(***************************************************************************)
(* Specification of the two pipelines: their producers, the STT worker,    *)
(* the TTS worker with its streaming read loop, the websocket peer and the *)
(* clock.  The worker threads and the clock always get to run; the peer    *)
(* is only required to keep talking in SpecWorkersPeer.                    *)
(***************************************************************************)
\* the default configuration with every API key set, and one that selects
\* openai for speech while only the xai key is set
WorkerConfigs ==
    { [config |-> DefaultConfig, env_keys |-> Providers],
      [config |-> [DefaultConfig EXCEPT !.tts_provider = "openai",
                                        !.show_endpoint_text = FALSE],
       env_keys |-> {"xai"}] }

SpeakInputs ==
    { SpeakRequest("  ", None, None, None, None, None),
      SpeakRequest(" hi ", Some("Codex"), None, None, None, None),
      SpeakRequest("hi", None, Some("NOVA"), Some("openai"), Some(TRUE), Some("calm")),
      SpeakRequest(LongMessage, None, None, Some("groq"), Some(FALSE), None),
      SpeakRequest("hi", Some("planner"), None, Some("groq"), None, None) }

InitWorkers ==
    /\ \E w \in WorkerConfigs : config = w.config /\ env_keys = w.env_keys
    /\ stt_pc = "recv"
    /\ stt_cur = None
    /\ tts_pc = "recv"
    /\ tts_cur = None
    /\ ws_in = None
    /\ ws_n = 0
    /\ pcm_bytes = <<>>
    /\ expired = FALSE
    /\ sent = [stt |-> <<>>, tts |-> <<>>]
    /\ taken = [stt |-> <<>>, tts |-> <<>>]
    /\ calls = <<>>
    /\ GuiAtRest
    /\ AppAtRest
    /\ CodecAtRest
    /\ events = <<>>
    /\ HotkeyAtRest
    /\ AudioAtRest
    /\ ServerAtRest

NextWorkers ==
    \/ \E by \in {"hotkey", "manual"}, samples \in Chunks : SttSend(by, samples)
    \/ \E by \in {"gui", "listener"}, speak \in SpeakInputs : TtsSend(by, speak)
    \/ SttRecv
    \/ \E ans \in SttReplies : SttTranscribe(ans)
    \/ \E ok \in BOOLEAN : SttInject(ok)
    \/ TtsRecv
    \/ \E ans \in TtsReplies, conn \in XaiConnects : TtsSynth(ans, conn)
    \/ \E ok \in BOOLEAN : TtsPlay(ok)
    \/ WsLoopTop
    \/ WsRead
    \/ \E f \in PassingFrames \cup EndingFrames : PeerFrame(f)
    \/ Tick

WorkerFairness ==
    /\ WF_vars(SttRecv)
    /\ WF_vars(\E ans \in SttReplies : SttTranscribe(ans))
    /\ WF_vars(\E ok \in BOOLEAN : SttInject(ok))
    /\ WF_vars(TtsRecv)
    /\ WF_vars(\E ans \in TtsReplies, conn \in XaiConnects : TtsSynth(ans, conn))
    /\ WF_vars(\E ok \in BOOLEAN : TtsPlay(ok))
    /\ WF_vars(WsLoopTop)
    /\ WF_vars(WsRead)
    /\ WF_vars(Tick)

PeerFairness == WF_vars(\E f \in PassingFrames \cup EndingFrames : PeerFrame(f))

SpecWorkers == InitWorkers /\ [][NextWorkers]_vars /\ WorkerFairness

SpecWorkersPeer == InitWorkers /\ [][NextWorkers]_vars /\ WorkerFairness /\ PeerFairness

(***************************************************************************)
(* Specification of voice resolution: the TTS worker receives one request, *)
(* over every combination of explicit voice, persona and provider.         *)
(***************************************************************************)
VoiceConfigs ==
    { DefaultConfig,
      [DefaultConfig EXCEPT !.tts_provider = "groq",
                            !.openai_voice = "ALLOY",
                            !.persona_voices = ("codex" :> "NOVA" @@ "planner" :> "eve")],
      \* a configuration file as load_or_create parses it: any string is a voice
      [DefaultConfig EXCEPT !.openai_voice = "bogus"] }

VoiceInputs ==
    { SpeakRequest("hi", persona, voice, provider, None, None) :
        persona \in {None, Some("codex"), Some("Codex"), Some("nobody"), Some("planner")},
        voice \in {None, Some("nova"), Some("NOVA"), Some("bogus"), Some("Rex"), Some("")},
        provider \in {None} \cup {Some(p) : p \in Providers} }

InitVoice ==
    /\ config \in VoiceConfigs
    /\ env_keys = Providers
    /\ \E speak \in VoiceInputs :
          /\ tts_rx = <<TtsRequest(speak)>>
          /\ sent = [stt |-> <<>>, tts |-> <<TtsRequest(speak)>>]
    /\ stt_pc = "recv"
    /\ stt_cur = None
    /\ tts_pc = "recv"
    /\ tts_cur = None
    /\ ws_in = None
    /\ ws_n = 0
    /\ pcm_bytes = <<>>
    /\ expired = FALSE
    /\ taken = [stt |-> <<>>, tts |-> <<>>]
    /\ calls = <<>>
    /\ GuiAtRest
    /\ AppAtRest
    /\ CodecAtRest
    /\ events = <<>>
    /\ HotkeyAtRest
    /\ AudioAtRest
    /\ cmd_rx = <<>>
    /\ enabled = FALSE
    /\ port = 8000
    /\ running = None
    /\ active = None
    /\ sup_pc = "init"
    /\ cmd = None
    /\ listeners = <<>>
    /\ reply = None
    /\ n_cmds = 0
    /\ n_served = 0
    /\ n_binds = 0
    /\ last_bind = "none"

NextVoice == TtsRecv

SpecVoice == InitVoice /\ [][NextVoice]_vars

(***************************************************************************)
(* Specification of the control plane together with the TTS worker that    *)
(* consumes what the listeners enqueue (main.rs 25-54).                    *)
(***************************************************************************)
ControlRequests ==
    { [method |-> "POST", url |-> "/speak", body |-> Readable([message |-> JStr("hello")])],
      [method |-> "POST", url |-> "/speak",
       body |-> Readable([message |-> JStr("hi"), voice |-> JStr("nova")])],
      [method |-> "GET", url |-> "/health", body |-> MalformedBody] }

ControlConfig == [DefaultConfig EXCEPT !.tts_provider = "openai", !.show_endpoint_text = FALSE]

InitControl ==
    /\ cmd_rx = <<>>
    /\ enabled \in BOOLEAN
    /\ port \in Ports
    /\ running = None
    /\ active = None
    /\ sup_pc = "init"
    /\ cmd = None
    /\ listeners = <<>>
    /\ tts_rx = <<>>
    /\ reply = None
    /\ n_cmds = 0
    /\ n_served = 0
    /\ n_binds = 0
    /\ last_bind = "none"
    /\ events = <<>>
    /\ HotkeyAtRest
    /\ AudioAtRest
    /\ config = ControlConfig
    /\ env_keys = Providers
    /\ stt_pc = "recv"
    /\ stt_cur = None
    /\ tts_pc = "recv"
    /\ tts_cur = None
    /\ ws_in = None
    /\ ws_n = 0
    /\ pcm_bytes = <<>>
    /\ expired = FALSE
    /\ sent = [stt |-> <<>>, tts |-> <<>>]
    /\ taken = [stt |-> <<>>, tts |-> <<>>]
    /\ calls = <<>>
    /\ GuiAtRest
    /\ AppAtRest
    /\ CodecAtRest

\* what a control-plane step leaves alone outside the control plane
controlFrame == <<hotkeyVars, audioVars, config, env_keys, stt_pc, stt_cur, tts_pc, tts_cur,
                  ws_in, ws_n, pcm_bytes, expired, taken, calls, guiVars, appVars, codecVars>>

\* a listener handles a request; an accepted one (202) is logged as sent
LsnRequestTts(i, req) ==
    /\ LsnRequest(i, req)
    /\ sent' = [sent EXCEPT !.tts = IF reply'[1].resp.status = 202
                                      THEN Append(@, TtsRequest(SpeakRequestOf(req.body)))
                                      ELSE @]
    /\ UNCHANGED controlFrame

NextControl ==
    \/ \E b \in BOOLEAN :
          n_cmds < MaxCtlCmds /\ set_enabled(b) /\ UNCHANGED <<controlFrame, sent>>
    \/ \E p \in Ports :
          n_cmds < MaxCtlCmds /\ set_port(p) /\ UNCHANGED <<controlFrame, sent>>
    \/ SupInit /\ UNCHANGED <<controlFrame, sent>>
    \/ SupRecv /\ UNCHANGED <<controlFrame, sent>>
    \/ SupJoin /\ UNCHANGED <<controlFrame, sent>>
    \/ \E i \in ListenerIds : LsnOnline(i) /\ UNCHANGED <<controlFrame, sent>>
    \/ \E i \in ListenerIds : LsnPoll(i) /\ UNCHANGED <<controlFrame, sent>>
    \/ \E i \in ListenerIds : LsnTimeout(i) /\ UNCHANGED <<controlFrame, sent>>
    \/ \E i \in ListenerIds : LsnRecvError(i) /\ UNCHANGED <<controlFrame, sent>>
    \/ \E i \in ListenerIds, req \in ControlRequests : LsnRequestTts(i, req)
    \/ TtsRecv
    \/ \E ans \in TtsReplies, conn \in XaiConnects : TtsSynth(ans, conn)
    \/ \E ok \in BOOLEAN : TtsPlay(ok)

\* the TTS worker thread keeps running
ControlFairness ==
    /\ WF_vars(TtsRecv)
    /\ WF_vars(\E ans \in TtsReplies, conn \in XaiConnects : TtsSynth(ans, conn))
    /\ WF_vars(\E ok \in BOOLEAN : TtsPlay(ok))

SpecControl == InitControl /\ [][NextControl]_vars /\ ControlFairness

(***************************************************************************)
(* Sample conversion in the device callback (audio.rs 36-76, 129-139) and  *)
(* the specification of the capture path with a raw device behind it.      *)
(***************************************************************************)
Clamp(x, lo, hi) == IF x < lo THEN lo ELSE IF x > hi THEN hi ELSE x

\* `(*s as i32 - 32768).clamp(i16::MIN as i32, i16::MAX as i32) as i16`
u16_to_i16(s) == AsI16(Clamp(s - 32768, -32768, 32767))

\* a variant of the downmix that rounds the average down
downmix_i16_to_mono_FloorAvg(data, channels) ==
    IF channels <= 1 THEN data
    ELSE [k \in 1..(Len(data) \div channels) |->
            AsI16(SumSeq(SubSeq(data, (k - 1) * channels + 1, k * channels)) \div channels)]

\* downmix_i16_to_mono: per complete frame, the i32 sum divided by the channel count
downmix_i16_to_mono(data, channels) ==
    IF channels <= 1 THEN data
    ELSE [k \in 1..(Len(data) \div channels) |->
            AsI16(TruncDiv(SumSeq(SubSeq(data, (k - 1) * channels + 1, k * channels)),
                           channels))]

\* the samples a device of each integer format can hand over
RawSamples(format) ==
    IF format = "u16" THEN {0, 1, 32767, 32768, 65535}
    ELSE {-32768, -1, 0, 1, 32767}

RawData(format) ==
    UNION { [1..n -> RawSamples(format)] : n \in 1..MaxData }

Devices == [format : {"i16", "u16"}, channels : 1..MaxChannels]

\* the callback up to its `buffer.lock()`: conversion (u16), the test of the
\* capturing flag, and the downmix
CbConvert(data) ==
    LET converted == IF device.format = "u16"
                       THEN [i \in 1..Len(data) |-> u16_to_i16(data[i])]
                       ELSE data
        mono == downmix_i16_to_mono(converted, device.channels)
    IN /\ cb_pc = None
       /\ capturing
       /\ Len(buffer) + Len(mono) <= MaxBuf
       /\ cb_pc' = Some(mono)
       /\ cb_data' = Some(data)
       /\ cb_win' = WindowsOpened
       /\ UNCHANGED <<capturing, buffer, stt_rx, rec_calls, au_pc, n_samples>>

captureFrame == <<serverVars, workerVars, guiVars, appVars, hotkeyVars, events, device, wav_in,
                  wav_bytes, wav_out>>

InitCapture ==
    /\ device \in Devices
    /\ cb_data = None
    /\ wav_in = [samples |-> <<>>, sample_rate |-> 24000]
    /\ wav_bytes = None
    /\ wav_out = None
    /\ AudioAtRest
    /\ HotkeyAtRest
    /\ ServerAtRest
    /\ WorkersAtRest
    /\ GuiAtRest
    /\ AppAtRest
    /\ events = <<>>

NextCapture ==
    \/ /\ StartsSoFar < MaxCalls
       /\ StartClear("hotkey")
       /\ UNCHANGED <<captureFrame, cb_data>>
    \/ StartStore("hotkey") /\ UNCHANGED <<captureFrame, cb_data>>
    \/ StopStore("hotkey") /\ UNCHANGED <<captureFrame, cb_data>>
    \/ StopClone("hotkey") /\ UNCHANGED <<captureFrame, cb_data>>
    \/ \E data \in RawData(device.format) : CbConvert(data) /\ UNCHANGED captureFrame
    \/ CbAppend /\ cb_data' = None /\ UNCHANGED captureFrame

SpecCapture == InitCapture /\ [][NextCapture]_vars

(***************************************************************************)
(* Specification of the WAV container: samples at a rate are encoded, and  *)
(* the container is decoded.                                               *)
(***************************************************************************)
WavSamples == {-32768, -1, 0, 1, 32767}
SampleRates == {16000, 24000, 48000}

WavInputs ==
    [samples : UNION { [1..n -> WavSamples] : n \in 0..MaxWav }, sample_rate : SampleRates]

\* play_pcm_24k_mono: `SamplesBuffer::new(1, 24_000, samples.to_vec())`, the only
\* sample rate the program attaches to decoded audio
PlaybackRate == 24000

InitWav ==
    /\ wav_in \in WavInputs
    /\ wav_bytes = None
    /\ wav_out = None
    /\ device = [format |-> "i16", channels |-> 1]
    /\ cb_data = None
    /\ AudioAtRest
    /\ HotkeyAtRest
    /\ ServerAtRest
    /\ WorkersAtRest
    /\ GuiAtRest
    /\ AppAtRest
    /\ events = <<>>

wavFrame == <<serverVars, events, hotkeyVars, audioVars, workerVars, guiVars, appVars, device, cb_data,
              wav_in>>

WavEncode ==
    /\ wav_bytes = None
    /\ wav_bytes' = Some(pcm_to_wav_bytes(wav_in.samples, wav_in.sample_rate).v)
    /\ UNCHANGED <<wavFrame, wav_out>>

WavDecode ==
    /\ wav_bytes # None
    /\ wav_out = None
    /\ wav_out' = Some(decode_wav_to_i16(wav_bytes[1]))
    /\ UNCHANGED <<wavFrame, wav_bytes>>

NextWav == WavEncode \/ WavDecode

SpecWav == InitWav /\ [][NextWav]_vars

(***************************************************************************)
(* Saving the settings in the GUI while the workers run (app.rs 437-485).  *)
(***************************************************************************)
\* what the user has set in the settings panel when pressing Save
Drafts ==
    { [stt_provider |-> "groq", stt_model |-> "whisper-large-v3",
       tts_provider |-> "openai", tts_voice |-> "nova", xai_style |-> "calm",
       show_endpoint_text |-> FALSE, server_port |-> 9000, tts_bridge_enabled |-> TRUE],
      [stt_provider |-> "openai", stt_model |-> "gpt-4o-transcribe",
       tts_provider |-> "groq", tts_voice |-> "hannah", xai_style |-> "clear",
       show_endpoint_text |-> TRUE, server_port |-> 8000, tts_bridge_enabled |-> FALSE] }

\* the assignments made to the configuration under the lock; the per-provider
\* draft maps hold the saved values except for the provider being edited
ApplyDraft(cfg, d) ==
    LET voices == [p \in Providers |->
                     IF p = d.tts_provider THEN d.tts_voice
                     ELSE CASE p = "xai" -> cfg.xai_voice
                            [] p = "openai" -> cfg.openai_voice
                            [] OTHER -> cfg.groq_voice]
    IN [cfg EXCEPT
           !.server_port = d.server_port,
           !.tts_bridge_enabled = d.tts_bridge_enabled,
           !.show_endpoint_text = d.show_endpoint_text,
           !.stt_model_by_provider = [@ EXCEPT ![d.stt_provider] = Some(d.stt_model)],
           !.groq_stt_model = IF d.stt_provider = "groq" THEN d.stt_model ELSE @,
           !.stt_model = IF d.stt_provider # "groq" THEN d.stt_model ELSE @,
           !.stt_provider = d.stt_provider,
           !.tts_provider = d.tts_provider,
           !.xai_voice = voices["xai"],
           !.openai_voice = voices["openai"],
           !.groq_voice = voices["groq"],
           !.xai_tts_style = d.xai_style]

\* `let mut cfg = self.config.lock()`, then the assignments
GuiSaveLock(d) ==
    /\ gui_pc = "idle"
    /\ n_saves < MaxSaves
    /\ cfg_lock = "free"
    /\ cfg_lock' = "gui"
    /\ gui_pc' = "saving"
    /\ n_saves' = n_saves + 1
    /\ config' = ApplyDraft(config, d)
    /\ UNCHANGED <<workersBase, events, stt_rx, tts_rx, stt_pc, stt_cur, tts_pc, tts_cur,
                   ws_in, ws_n, pcm_bytes, expired, sent, taken, calls>>

\* `cfg.save()` has written the file: `drop(cfg)`, then set_port and set_enabled
GuiSaveDone ==
    /\ gui_pc = "saving"
    /\ cfg_lock' = "free"
    /\ gui_pc' = "idle"
    /\ cmd_rx' = ChanSend("cmd", ChanSend("cmd", cmd_rx, SetPortCmd(config.server_port)),
                           SetEnabledCmd(config.tts_bridge_enabled))
    /\ n_cmds' = n_cmds + 2
    /\ UNCHANGED <<enabled, port, running, active, sup_pc, cmd, listeners, reply, n_served,
                   n_binds, last_bind, hotkeyVars, audioVars, env_keys, codecVars, appVars, config,
                   n_saves, events, stt_rx, tts_rx, stt_pc, stt_cur, tts_pc, tts_cur,
                   ws_in, ws_n, pcm_bytes, expired, sent, taken, calls>>

\* a variant of the checkbox handler that only changes the draft
GuiToggleBridge_DraftOnly ==
    /\ gui_pc = "idle"
    /\ n_cmds - 2 * n_saves < MaxToggles
    /\ draft' = [draft EXCEPT !.tts_bridge_enabled = ~@]
    /\ UNCHANGED <<serverVars, events, hotkeyVars, audioVars, workerVars, guiVars, rx_gone,
                   codecVars>>

\* the checkbox "Enable internal TTS bridge server" changed: set_enabled(draft)
GuiToggleBridge ==
    /\ gui_pc = "idle"
    /\ n_cmds - 2 * n_saves < MaxToggles
    /\ draft' = [draft EXCEPT !.tts_bridge_enabled = ~@]
    /\ cmd_rx' = ChanSend("cmd", cmd_rx, SetEnabledCmd(~draft.tts_bridge_enabled))
    /\ n_cmds' = n_cmds + 1
    /\ UNCHANGED <<enabled, port, running, active, sup_pc, cmd, listeners, tts_rx, reply,
                   n_served, n_binds, last_bind, events, hotkeyVars, audioVars, workerVars,
                   guiVars, rx_gone, codecVars>>

\* the "HTTP Port" value was edited
GuiEditPort(p) ==
    /\ gui_pc = "idle"
    /\ p # draft.server_port
    /\ draft' = [draft EXCEPT !.server_port = p]
    /\ UNCHANGED <<serverVars, events, hotkeyVars, audioVars, workerVars, guiVars, rx_gone,
                   codecVars>>

\* what Save writes: the bridge drafts, and the other drafts as the user set them
SaveDrafts ==
    { [d EXCEPT !.server_port = draft.server_port,
                !.tts_bridge_enabled = draft.tts_bridge_enabled] : d \in Drafts }

\* the requests sent while the settings are saved
CfgSpeakInputs ==
    { SpeakRequest("hi", None, None, None, None, None),
      SpeakRequest("hi", Some("planner"), None, Some("openai"), None, None) }

InitConfig ==
    /\ config = DefaultConfig
    /\ env_keys = {"openai", "xai"}
    /\ stt_pc = "recv"
    /\ stt_cur = None
    /\ tts_pc = "recv"
    /\ tts_cur = None
    /\ ws_in = None
    /\ ws_n = 0
    /\ pcm_bytes = <<>>
    /\ expired = FALSE
    /\ sent = [stt |-> <<>>, tts |-> <<>>]
    /\ taken = [stt |-> <<>>, tts |-> <<>>]
    /\ calls = <<>>
    /\ GuiAtRest
    /\ AppAtRest
    /\ CodecAtRest
    /\ events = <<>>
    /\ HotkeyAtRest
    /\ AudioAtRest
    /\ ServerAtRest

NextConfig ==
    \/ Len(sent.stt) < MaxCfgReqs /\ SttSend("hotkey", <<1>>)
    \/ \E speak \in CfgSpeakInputs : Len(sent.tts) < MaxCfgReqs /\ TtsSend("gui", speak)
    \/ SttRecv
    \/ \E ans \in SttReplies : SttTranscribe(ans)
    \/ \E ok \in BOOLEAN : SttInject(ok)
    \/ TtsRecv
    \/ \E ans \in TtsReplies, conn \in XaiConnects : TtsSynth(ans, conn)
    \/ \E ok \in BOOLEAN : TtsPlay(ok)
    \/ WsLoopTop
    \/ WsRead
    \/ \E f \in PassingFrames \cup EndingFrames : PeerFrame(f)
    \/ Tick
    \/ \E d \in Drafts : GuiSaveLock(d)
    \/ GuiSaveDone

SpecConfig == InitConfig /\ [][NextConfig]_vars

(***************************************************************************)
(* The TTS worker with Groq as the configured provider (tts.rs 143-161).   *)
(***************************************************************************)
GroqMessages ==
    {"hi", FullMessage, "  a message of 200 characters  ", WideMessage, LongMessage,
     " a message of 201 characters\n"}

GroqSpeakInputs ==
    { SpeakRequest(m, None, None, p, Some(FALSE), None) :
        m \in GroqMessages, p \in {None, Some("groq"), Some("openai")} }

InitGroq ==
    /\ config = [DefaultConfig EXCEPT !.tts_provider = "groq"]
    /\ env_keys \in {Providers, {"openai"}}
    /\ stt_pc = "recv"
    /\ stt_cur = None
    /\ tts_pc = "recv"
    /\ tts_cur = None
    /\ ws_in = None
    /\ ws_n = 0
    /\ pcm_bytes = <<>>
    /\ expired = FALSE
    /\ sent = [stt |-> <<>>, tts |-> <<>>]
    /\ taken = [stt |-> <<>>, tts |-> <<>>]
    /\ calls = <<>>
    /\ GuiAtRest
    /\ AppAtRest
    /\ CodecAtRest
    /\ events = <<>>
    /\ HotkeyAtRest
    /\ AudioAtRest
    /\ ServerAtRest

NextGroq ==
    \/ \E speak \in GroqSpeakInputs :
          Len(sent.tts) < MaxGroqReqs /\ TtsSend("listener", speak)
    \/ TtsRecv
    \/ \E ans \in TtsReplies, conn \in XaiConnects : TtsSynth(ans, conn)
    \/ \E ok \in BOOLEAN : TtsPlay(ok)

SpecGroq == InitGroq /\ [][NextGroq]_vars

(***************************************************************************)
(* The bridge settings in the GUI and the supervisor (app.rs 268-280,      *)
(* 437-485; main.rs 44-54).                                                *)
(***************************************************************************)
\* the supervisor and the GUI's drafts both start from the stored configuration
InitSave ==
    /\ cmd_rx = <<>>
    /\ enabled \in BOOLEAN
    /\ port \in Ports
    /\ running = None
    /\ active = None
    /\ sup_pc = "init"
    /\ cmd = None
    /\ listeners = <<>>
    /\ tts_rx = <<>>
    /\ reply = None
    /\ n_cmds = 0
    /\ n_served = 0
    /\ n_binds = 0
    /\ last_bind = "none"
    /\ events = <<>>
    /\ draft = [server_port |-> port, tts_bridge_enabled |-> enabled]
    /\ rx_gone = {}
    /\ config = [DefaultConfig EXCEPT !.server_port = port, !.tts_bridge_enabled = enabled]
    /\ env_keys = Providers
    /\ stt_pc = "recv"
    /\ stt_cur = None
    /\ tts_pc = "recv"
    /\ tts_cur = None
    /\ ws_in = None
    /\ ws_n = 0
    /\ pcm_bytes = <<>>
    /\ expired = FALSE
    /\ sent = [stt |-> <<>>, tts |-> <<>>]
    /\ taken = [stt |-> <<>>, tts |-> <<>>]
    /\ calls = <<>>
    /\ GuiAtRest
    /\ CodecAtRest
    /\ HotkeyAtRest
    /\ AudioAtRest

NextSave ==
    \/ GuiToggleBridge
    \/ \E p \in Ports : GuiEditPort(p)
    \/ \E d \in SaveDrafts : GuiSaveLock(d)
    \/ GuiSaveDone
    \/ SupInit /\ UNCHANGED serverFrame
    \/ SupRecv /\ UNCHANGED serverFrame
    \/ SupJoin /\ UNCHANGED serverFrame
    \/ \E i \in ListenerIds : LsnOnline(i) /\ UNCHANGED serverFrame
    \/ \E i \in ListenerIds : LsnPoll(i) /\ UNCHANGED serverFrame
    \/ \E i \in ListenerIds : LsnTimeout(i) /\ UNCHANGED serverFrame
    \/ \E i \in ListenerIds : LsnRecvError(i) /\ UNCHANGED serverFrame

\* the supervisor and the listeners keep running, and the save, once it has
\* the lock, writes the file and sends its two commands
SaveFairness ==
    /\ WF_vars(GuiSaveDone)
    /\ WF_vars(SupInit /\ UNCHANGED serverFrame)
    /\ WF_vars(SupRecv /\ UNCHANGED serverFrame)
    /\ WF_vars(SupJoin /\ UNCHANGED serverFrame)
    /\ \A i \in ListenerIds :
          /\ WF_vars(LsnOnline(i) /\ UNCHANGED serverFrame)
          /\ WF_vars(LsnPoll(i) /\ UNCHANGED serverFrame)
          /\ WF_vars((LsnTimeout(i) \/ LsnRecvError(i)) /\ UNCHANGED serverFrame)

SpecSave == InitSave /\ [][NextSave]_vars /\ SaveFairness

(***************************************************************************)
(* The event-hook backend over chords and keys that include the backtick,  *)
(* next to what the polling backend computes from the same held keys.      *)
(***************************************************************************)
BackendChords ==
    { <<"ctrl", "backtick">>, <<"ctrl", "shift">>, <<"alt", "a">>, <<"space">>, <<"grave">> }

BackendKeys == {"ControlLeft", "ControlRight", "ShiftLeft", "Alt", "KeyA", "Space", "BackQuote"}

InitBackends ==
    /\ hotkey_str \in BackendChords
    /\ backend = "hook"
    /\ hk_pc = "boot"
    /\ spec = None
    /\ st = [ctrl |-> FALSE, shift |-> FALSE, alt |-> FALSE, meta |-> FALSE,
             pressed_non_mod |-> {}]
    /\ was_active = FALSE
    /\ n_keys = 0
    /\ held = {}
    /\ events = <<>>
    /\ AudioAtRest
    /\ ServerAtRest
    /\ WorkersAtRest
    /\ GuiAtRest
    /\ AppAtRest
    /\ CodecAtRest

NextBackends ==
    \/ HkBoot /\ UNCHANGED <<serverVars, workerVars, guiVars, appVars, codecVars>>
    \/ \E k \in BackendKeys :
          HookKeyPress(k) /\ UNCHANGED <<serverVars, workerVars, guiVars, appVars, codecVars>>
    \/ \E k \in BackendKeys :
          HookKeyRelease(k) /\ UNCHANGED <<serverVars, workerVars, guiVars, appVars, codecVars>>

SpecBackends == InitBackends /\ [][NextBackends]_vars

(***************************************************************************)
(* The producers of the three queues, with receivers that can go away: the *)
(* callers of ServerControl, the supervisor, the listener and its clients, *)
(* and the event hook with the recorder's device callback.  `events` is    *)
(* the record of the sends made to the event queue.                        *)
(***************************************************************************)
Channels == {"cmd", "tts", "stt"}

\* the environment has inputs left to give
InputsLeft == n_cmds + n_served + n_keys < MaxInputs

SendRequests ==
    { [method |-> "POST", url |-> "/speak", body |-> Readable([message |-> JStr("hello")])],
      [method |-> "POST", url |-> "/speak", body |-> MalformedBody],
      [method |-> "GET", url |-> "/health", body |-> MalformedBody] }

\* the thread owning a receiver ends: the receiver is dropped with what it held
RxDrop(ch) ==
    /\ ch \notin rx_gone
    /\ Cardinality(rx_gone) < MaxDrops
    /\ ch = "cmd" => sup_pc = "recv"
    /\ rx_gone' = rx_gone \cup {ch}
    /\ cmd_rx' = IF ch = "cmd" THEN <<>> ELSE cmd_rx
    /\ tts_rx' = IF ch = "tts" THEN <<>> ELSE tts_rx
    /\ stt_rx' = IF ch = "stt" THEN <<>> ELSE stt_rx
    /\ UNCHANGED <<enabled, port, running, active, sup_pc, cmd, listeners, reply, n_cmds,
                   n_served, n_binds, last_bind, events, hotkeyVars, capturing, buffer,
                   rec_calls, au_pc, cb_pc, n_samples, cb_win, workerVars, guiVars, draft,
                   codecVars>>

InitSends ==
    /\ cmd_rx = <<>>
    /\ enabled = TRUE
    /\ port = 8000
    /\ running = None
    /\ active = None
    /\ sup_pc = "init"
    /\ cmd = None
    /\ listeners = <<>>
    /\ tts_rx = <<>>
    /\ reply = None
    /\ n_cmds = 0
    /\ n_served = 0
    /\ n_binds = 0
    /\ last_bind = "none"
    /\ events = <<>>
    /\ hotkey_str = <<"space">>
    /\ backend = "hook"
    /\ hk_pc = "boot"
    /\ spec = None
    /\ st = [ctrl |-> FALSE, shift |-> FALSE, alt |-> FALSE, meta |-> FALSE,
             pressed_non_mod |-> {}]
    /\ was_active = FALSE
    /\ n_keys = 0
    /\ held = {}
    /\ AudioAtRest
    /\ WorkersAtRest
    /\ GuiAtRest
    /\ AppAtRest
    /\ CodecAtRest

NextSends ==
    \/ \E b \in BOOLEAN : InputsLeft /\ set_enabled(b) /\ UNCHANGED serverFrame
    \/ SupInit /\ UNCHANGED serverFrame
    \/ SupRecv /\ UNCHANGED serverFrame
    \/ SupJoin /\ UNCHANGED serverFrame
    \/ \E i \in ListenerIds : LsnOnline(i) /\ UNCHANGED serverFrame
    \/ \E i \in ListenerIds : LsnPoll(i) /\ UNCHANGED serverFrame
    \/ \E i \in ListenerIds : LsnTimeout(i) /\ UNCHANGED serverFrame
    \/ \E i \in ListenerIds, req \in SendRequests :
          InputsLeft /\ LsnRequest(i, req) /\ UNCHANGED serverFrame
    \/ HkBoot /\ UNCHANGED <<serverVars, workerVars, guiVars, appVars, codecVars>>
    \/ InputsLeft /\ HookKeyPress("Space")
          /\ UNCHANGED <<serverVars, workerVars, guiVars, appVars, codecVars>>
    \/ InputsLeft /\ HookKeyRelease("Space")
          /\ UNCHANGED <<serverVars, workerVars, guiVars, appVars, codecVars>>
    \/ CbLoad(<<1>>) /\ UNCHANGED <<serverVars, hotkeyVars, events, workerVars, guiVars, appVars, codecVars>>
    \/ CbAppend /\ UNCHANGED <<serverVars, hotkeyVars, events, workerVars, guiVars, appVars, codecVars>>
    \/ \E ch \in Channels : RxDrop(ch)

SpecSends == InitSends /\ [][NextSends]_vars

(***************************************************************************)
(* Properties of the hotkey worker (checked under SpecHotkey, SpecParse).  *)
(***************************************************************************)
IsListening(e) == e.type = "Listening"
ListeningEvents == SelectSeq(events, IsListening)

AllSpecs == [require_ctrl : BOOLEAN, require_shift : BOOLEAN, require_alt : BOOLEAN,
             require_meta : BOOLEAN,
             key : {None, Some("KeyA"), Some("Space"), Some("Return")}]

\* a step of the event-hook backend: the callback ran on one event
HookStep == hk_pc = "run" /\ backend = "hook" /\ n_keys' # n_keys

\* C7: the worker's recorder calls alternate start, stop, start, ... and so
\* do its Listening(true) / Listening(false) events; an event (or a poll)
\* that finds the chord satisfied while was_active is already true calls
\* neither start_capture nor stop_capture and sends no event.
C7_CaptureAlternates ==
    /\ [](/\ \A i \in 1..Len(rec_calls) :
                rec_calls[i].op = (IF i % 2 = 1 THEN "start" ELSE "stop")
          /\ \A i \in 1..Len(ListeningEvents) :
                ListeningEvents[i].arg = (IF i % 2 = 1 THEN "true" ELSE "false")
          /\ Len(ListeningEvents) = Len(rec_calls)
          /\ was_active <=> (Len(rec_calls) % 2 = 1))
    /\ [][ /\ (HookStep /\ was_active /\ is_hotkey_active(st', spec[1])) =>
                /\ rec_calls' = rec_calls
                /\ events' = events
                /\ buffer' = buffer
                /\ capturing' = capturing
                /\ stt_rx' = stt_rx
           /\ ( /\ hk_pc = "run"
                /\ backend = "poll"
                /\ was_active
                /\ held' = held
                /\ is_hotkey_active_windows(spec[1]) ) =>
                /\ rec_calls' = rec_calls
                /\ events' = events
                /\ capturing' = capturing ]_vars

\* C7 witness: one start_capture only, although at least two further events
\* arrived while the chord stayed satisfied.
C7_Witness ==
    /\ backend = "hook"
    /\ was_active
    /\ Len(rec_calls) = 1
    /\ n_keys >= 3
    /\ spec[1].require_meta
    /\ ~spec[1].require_shift

\* C8: for the current KeyState and every HotkeySpec, is_hotkey_active is
\* true iff each required modifier flag is set and the primary key, when
\* there is one, is in the currently-down set (so modifiers alone satisfy a
\* chord with no primary key); and an event that clears a required modifier
\* flag leaves the worker inactive.
C8_ChordSatisfaction ==
    /\ [](\A sp \in AllSpecs :
            is_hotkey_active(st, sp) <=>
                /\ sp.require_ctrl => st.ctrl
                /\ sp.require_shift => st.shift
                /\ sp.require_alt => st.alt
                /\ sp.require_meta => st.meta
                /\ sp.key # None => sp.key[1] \in st.pressed_non_mod)
    /\ [][ ( /\ HookStep
             /\ \/ spec[1].require_ctrl /\ st.ctrl /\ ~st'.ctrl
                \/ spec[1].require_shift /\ st.shift /\ ~st'.shift
                \/ spec[1].require_alt /\ st.alt /\ ~st'.alt
                \/ spec[1].require_meta /\ st.meta /\ ~st'.meta )
           => ( /\ ~is_hotkey_active(st', spec[1])
                /\ ~was_active'
                /\ ~capturing' ) ]_vars

\* C8 witness: a chord with a primary key went inactive because its modifier
\* was released while the key is still down.
C8_Witness ==
    /\ backend = "hook"
    /\ spec # None
    /\ spec[1].require_ctrl
    /\ spec[1].key = Some("Space")
    /\ "Space" \in st.pressed_non_mod
    /\ ~st.ctrl
    /\ ~was_active
    /\ Len(rec_calls) = 2

\* tokens that name no modifier and no key
Unparseable(raw) == TrimLower(raw) \in {"#", "f1"}

\* C9: once the worker has started on a chord string that contains an
\* unparseable token, or that names no modifier and no primary key, it uses
\* the built-in ctrl+shift chord and has sent a Warning event.
C9_InvalidChordFallsBack ==
    ( /\ hk_pc = "run"
      /\ \/ \E i \in 1..Len(hotkey_str) : Unparseable(hotkey_str[i])
         \/ NoRequirement(ParseTokens(EmptySpec, hotkey_str)) )
    => ( /\ spec = Some(DefaultSpec)
         /\ HasEvent("Warning", "hotkey invalid, defaulting to ctrl+shift") )

(***************************************************************************)
(* Properties of the recorder (checked under SpecAudio).                   *)
(***************************************************************************)
\* C10: of two stop_capture calls with no start_capture between them the
\* second returns an empty buffer; stop_capture returns the accumulated
\* buffer and leaves it reset (empty); and the clear of start_capture leaves
\* the buffer empty, the capturing flag being set only afterwards.
C10_StopResetsBuffer ==
    /\ [](\A i \in 2..Len(rec_calls) :
              (rec_calls[i].op = "stop" /\ rec_calls[i-1].op = "stop")
                 => rec_calls[i].ret = <<>>)
    /\ [][ \A c \in Callers :
              /\ (au_pc[c] = "stopping" /\ au_pc'[c] = "idle") =>
                    /\ rec_calls'[Len(rec_calls')].ret = buffer
                    /\ buffer' = <<>>
              /\ (au_pc[c] = "idle" /\ au_pc'[c] = "cleared") => buffer' = <<>>
              /\ (au_pc[c] = "idle" /\ au_pc'[c] # "idle") => capturing' = capturing ]_vars

\* samples handed to the STT queue so far (the queue has no consumer here)
RECURSIVE SumLen(_)
SumLen(q) == IF q = <<>> THEN 0 ELSE Len(Head(q)) + SumLen(Tail(q))

\* C11: when the hotkey worker's stop_capture completes (its chord went from
\* satisfied to not satisfied) the returned buffer is appended to the STT
\* queue exactly once if it is non-empty and nothing is appended if it is
\* empty; and audio is moved out of the recorder, so the STT queue never
\* receives more samples than the device callback recorded.
C11_HandOffOnce ==
    /\ [][ (au_pc["hotkey"] = "stopping" /\ au_pc'["hotkey"] = "idle") =>
              LET ret == rec_calls'[Len(rec_calls')].ret
              IN stt_rx' = IF ret # <<>> THEN Append(stt_rx, ret) ELSE stt_rx ]_vars
    /\ [](SumLen(stt_rx) <= n_samples)

(***************************************************************************)
(* Properties of the pipelines (checked under SpecWorkers, and under       *)
(* SpecWorkersPeer where the websocket peer keeps talking).                *)
(***************************************************************************)
\* the errors synthesize_with_provider can return
SynthErrors ==
    {"API key missing", "Groq Orpheus input max is 200 chars", "connect error", "send error",
     "HTTP 500", "invalid wav header", "unsupported response_format",
     "xAI realtime timed out", "read error", "json error", "base64 error",
     "xAI realtime returned error"}

TtsFailedEvents == { Ev("Error", "tts failed: " \o e) : e \in SynthErrors }

\* the events each worker sends, in order
IsSttEvent(e) ==
    \/ e.type \in {"SttBusy", "LastTranscript"}
    \/ e \in {Ev("Info", "stt audio seconds"), Ev("Info", "stt provider used"),
              Ev("Info", "stt produced empty transcript"),
              Ev("Error", "stt failed"), Ev("Error", "inject failed")}
SttEvents == SelectSeq(events, IsSttEvent)
IsTtsEvent(e) == ~IsSttEvent(e)
TtsEvents == SelectSeq(events, IsTtsEvent)

IsSttDone(e) == e = Ev("SttBusy", "false")
IsTtsDone(e) == e = Ev("TtsBusy", "false")
\* items each worker has finished with
SttDone == Len(SelectSeq(events, IsSttDone))
TtsDone == Len(SelectSeq(events, IsTtsDone))

InStream == tts_pc \in {"loop", "read"}

\* C13: a streaming synthesis call always returns: a loop iteration that starts
\* after the 20-second budget is exceeded returns the timeout error, and the
\* call does not stay inside read_audio_until_done forever, whether or not
\* the peer sends any further frame.
C13_StreamTerminates ==
    /\ [][ (tts_pc = "loop" /\ expired /\ tts_pc' # "loop") =>
              /\ tts_pc' = "recv"
              /\ events' = events \o <<Ev("Error", "tts failed: xAI realtime timed out"),
                                       Ev("TtsBusy", "false")>> ]_vars
    /\ InStream ~> ~InStream

\* C14: when the read loop reads an error event the call fails, whatever was
\* accumulated in pcm_bytes: the worker reports "tts failed", plays nothing and
\* ends the item; and the loop only ends in success (playback of the decoded
\* pcm_bytes) on reading response.done.
C14_ErrorEventFails ==
    [][ /\ (tts_pc = "read" /\ tts_pc' # "read" /\ ws_in[1].type = "error") =>
              /\ tts_pc' = "recv"
              /\ tts_cur' = None
              /\ calls' = calls
              /\ events' = events
                    \o <<Ev("Error", "tts failed: xAI realtime returned error"),
                         Ev("TtsBusy", "false")>>
        /\ (InStream /\ tts_pc' = "play") =>
              /\ tts_pc = "read"
              /\ ws_in[1].type = "response.done"
              /\ tts_cur'[1].pcm = pcm_from_le_bytes(pcm_bytes) ]_vars

\* C14 witness: an error event was read after audio had been accumulated, the
\* request failed and nothing was played.
C14_Witness ==
    /\ pcm_bytes # <<>>
    /\ tts_pc = "recv"
    /\ Len(TtsEvents) >= 2
    /\ TtsEvents[Len(TtsEvents)-1] = Ev("Error", "tts failed: xAI realtime returned error")
    /\ \A i \in 1..Len(calls) : calls[i].op # "play"

\* the fixed voice set of each provider
VoiceSet(provider) == {v \in {"nova", "alloy", "rex", "eve", "sal", "troy", "bogus", ""} :
                          is_valid_voice(provider, v)}

\* C15: the voice the TTS worker resolves for a request: with an explicit
\* voice, that voice lower-cased if it is in the provider's voice set and the
\* provider's configured default (lower-cased) otherwise, whatever the persona;
\* else, with a persona whose lower-cased name is in the persona table, the
\* mapped voice if valid for the provider and the provider default otherwise;
\* else the provider default.  In particular "nova"/openai gives "nova",
\* "bogus"/openai the openai default, persona "codex" -> "rex" / xai gives "rex".
C15_VoicePrecedence ==
    tts_cur # None =>
        LET speak == tts_cur[1].speak
            p == tts_cur[1].provider
            v == tts_cur[1].voice
            dflt == Lower(CASE p = "xai" -> config.xai_voice
                            [] p = "openai" -> config.openai_voice
                            [] p = "groq" -> config.groq_voice)
            table == config.persona_voices
        IN /\ p = (IF speak.provider # None THEN speak.provider[1] ELSE config.tts_provider)
           /\ speak.voice # None =>
                 v = (IF Lower(speak.voice[1]) \in VoiceSet(p)
                        THEN Lower(speak.voice[1]) ELSE dflt)
           /\ (speak.voice = None /\ speak.persona # None
                 /\ Lower(speak.persona[1]) \in DOMAIN table) =>
                 v = (IF Lower(table[Lower(speak.persona[1])]) \in VoiceSet(p)
                        THEN Lower(table[Lower(speak.persona[1])]) ELSE dflt)
           /\ (speak.voice = None
                 /\ (speak.persona = None \/ Lower(speak.persona[1]) \notin DOMAIN table)) =>
                 v = dflt
           /\ (speak.voice = Some("nova") /\ p = "openai") => v = "nova"
           /\ (speak.voice = Some("bogus") /\ p = "openai") => v = Lower(config.openai_voice)
           /\ (speak.voice = None /\ speak.persona = Some("codex") /\ p = "xai"
                 /\ table["codex"] = "rex") => v = "rex"

\* C15 witness: an invalid explicit voice took the provider default although
\* the request's persona maps to a valid voice.
C15_Witness ==
    /\ tts_cur # None
    /\ tts_cur[1].speak.voice = Some("bogus")
    /\ tts_cur[1].speak.persona = Some("planner")
    /\ tts_cur[1].provider = "xai"
    /\ tts_cur[1].voice = "rex"

\* C16: a request whose message is empty after trimming makes the TTS worker
\* emit TtsBusy(true), a Warning and TtsBusy(false), start no synthesis and no
\* playback, and stay ready for the next request.
C16_EmptyMessageSkipped ==
    [][ ( /\ Len(taken.tts') > Len(taken.tts)
          /\ Trim(taken.tts'[Len(taken.tts')].speak.message) = "" ) =>
            /\ events' = events \o <<Ev("TtsBusy", "true"),
                                     Ev("Warning", "empty speak message"),
                                     Ev("TtsBusy", "false")>>
            /\ calls' = calls
            /\ tts_pc' = "recv"
            /\ tts_cur' = None
            /\ tts_rx' = Tail(tts_rx) ]_vars

\* C16 witness: after a blank request the worker took the next request and
\* started working on it; nothing was synthesised or played for the blank one.
C16_Witness ==
    /\ Len(taken.tts) = 2
    /\ Trim(taken.tts[1].speak.message) = ""
    /\ Len(TtsEvents) >= 4
    /\ TtsEvents[2] = Ev("Warning", "empty speak message")
    /\ TtsEvents[3] = Ev("TtsBusy", "false")
    /\ tts_pc = "synth"
    /\ calls = <<>>

IsPrefix(s, t) == Len(s) <= Len(t) /\ SubSeq(t, 1, Len(s)) = s

\* C17: each pipeline serves its items first in, first out, whichever producer
\* sent them: the items taken so far are the first ones sent, in the order
\* sent, the rest wait in the channel in that order, and an item is only taken
\* when every item before it is finished.
C17_Fifo ==
    /\ [](sent.stt = taken.stt \o stt_rx)
    /\ [](sent.tts = taken.tts \o tts_rx)
    /\ [](SttDone \in {Len(taken.stt), Len(taken.stt) - 1})
    /\ [](TtsDone \in {Len(taken.tts), Len(taken.tts) - 1})
    /\ [][ /\ taken.stt' # taken.stt =>
                /\ taken.stt' = Append(taken.stt, Head(stt_rx))
                /\ SttDone = Len(taken.stt)
           /\ taken.tts' # taken.tts =>
                /\ taken.tts' = Append(taken.tts, Head(tts_rx))
                /\ TtsDone = Len(taken.tts) ]_vars

\* C17 witness: two different requests were sent to the TTS channel and both
\* were served, in the order sent.
C17_Witness ==
    /\ Len(sent.tts) = 2
    /\ sent.tts[1] # sent.tts[2]
    /\ taken.tts = sent.tts
    /\ TtsDone = 2

IsSttBusy(e) == e.type = "SttBusy"
IsTtsBusy(e) == e.type = "TtsBusy"
SttBusy == SelectSeq(events, IsSttBusy)
TtsBusy == SelectSeq(events, IsTtsBusy)

CallsOf(op) == Len(SelectSeq(calls, LAMBDA c : c.op = op))

\* C18: the STT worker has at most one transcription in flight: SttBusy(true)
\* and SttBusy(false) strictly alternate, starting with true, one pair per
\* dequeued buffer on every outcome; the flag is set exactly while an item is
\* being worked on; and at most one transcription is made per buffer.
C18_SttOneInFlight ==
    /\ \A i \in 1..Len(SttBusy) :
          SttBusy[i].arg = (IF i % 2 = 1 THEN "true" ELSE "false")
    /\ Len(SttBusy) = 2 * Len(taken.stt) - (IF stt_pc = "recv" THEN 0 ELSE 1)
    /\ stt_pc \in {"recv", "transcribe", "inject"}
    /\ (stt_pc = "recv") = (stt_cur = None)
    /\ CallsOf("transcribe") <= Len(taken.stt) - (IF stt_pc = "transcribe" THEN 1 ELSE 0)

\* C18 witness: two buffers went through, one with an empty transcript and one
\* whose transcription failed, each with its own true/false pair.
C18_Witness ==
    /\ Len(taken.stt) = 2
    /\ stt_pc = "recv"
    /\ SttBusy = <<Ev("SttBusy", "true"), Ev("SttBusy", "false"),
                   Ev("SttBusy", "true"), Ev("SttBusy", "false")>>
    /\ \E i \in 1..Len(events) : events[i] = Ev("Info", "stt produced empty transcript")
    /\ \E i \in 1..Len(events) : events[i] = Ev("Error", "stt failed")

\* C19: the TTS worker takes the next request only when synthesis and playback
\* of the current one are finished: TtsBusy(true) is emitted before synthesis
\* starts and TtsBusy(false) only after playback returned or the request
\* failed, so the events alternate and bracket the whole operation.
C19_TtsBracketsWholeOperation ==
    /\ [](\A i \in 1..Len(TtsBusy) :
             TtsBusy[i].arg = (IF i % 2 = 1 THEN "true" ELSE "false"))
    /\ [](Len(TtsBusy) = 2 * Len(taken.tts) - (IF tts_pc = "recv" THEN 0 ELSE 1))
    /\ []((tts_pc = "recv") = (tts_cur = None))
    /\ [][ /\ taken.tts' # taken.tts => (tts_pc = "recv" /\ TtsDone = Len(taken.tts))
           /\ CallsOf("synth")' > CallsOf("synth") =>
                 (Len(TtsBusy) % 2 = 1 /\ tts_pc = "synth")
           /\ CallsOf("play")' > CallsOf("play") =>
                 /\ Len(TtsBusy) % 2 = 1
                 /\ tts_pc = "play"
                 /\ events'[Len(events')] = Ev("TtsBusy", "false")
           /\ (tts_pc # "recv" /\ TtsDone' > TtsDone) =>
                 \/ CallsOf("play")' = CallsOf("play") + 1
                 \/ /\ Len(events') >= 2
                    /\ events'[Len(events') - 1].type = "Error" ]_vars

\* C19 witness: a second request waits in the channel while the first one,
\* synthesised, is being played with the busy flag still set.
C19_Witness ==
    /\ tts_pc = "play"
    /\ tts_rx # <<>>
    /\ Len(taken.tts) = 1
    /\ CallsOf("synth") = 1
    /\ TtsBusy = <<Ev("TtsBusy", "true")>>

IsLastTranscript(e) == e.type = "LastTranscript"
Transcripts == SelectSeq(events, IsLastTranscript)

\* C20: for a non-empty transcript the worker emits LastTranscript before the
\* injection, which is attempted exactly once; a failed injection adds an
\* Error event and leaves the transcript event in place; an empty transcript
\* gives an Info event and no injection; a failed transcription gives an Error
\* event and no injection.
C20_TranscriptThenInjectOnce ==
    /\ [](CallsOf("inject") = Len(Transcripts) - (IF stt_pc = "inject" THEN 1 ELSE 0))
    /\ [](stt_pc = "inject" =>
             /\ stt_cur[1].text # ""
             /\ Transcripts[Len(Transcripts)] = Ev("LastTranscript", stt_cur[1].text))
    /\ [][ /\ Transcripts' # Transcripts =>
                /\ stt_pc = "transcribe"
                /\ stt_pc' = "inject"
                /\ CallsOf("inject")' = CallsOf("inject")
           /\ stt_pc = "inject" =>
                /\ IsPrefix(events, events')
                /\ (stt_pc' # "inject") =>
                      /\ CallsOf("inject")' = CallsOf("inject") + 1
                      /\ events' \in { events \o <<Ev("SttBusy", "false")>>,
                                       events \o <<Ev("Error", "inject failed"),
                                                   Ev("SttBusy", "false")>> }
           /\ (stt_pc = "transcribe" /\ stt_pc' = "recv") =>
                /\ CallsOf("inject")' = CallsOf("inject")
                /\ events' \in { events \o <<Ev("Info", "stt produced empty transcript"),
                                             Ev("SttBusy", "false")>>,
                                 events \o <<Ev("Error", "stt failed"),
                                             Ev("SttBusy", "false")>> } ]_vars

\* C20 witness: a transcript was published, its one injection failed, and the
\* transcript event is still followed by the Error event.
C20_Witness ==
    /\ stt_pc = "recv"
    /\ CallsOf("inject") = 1
    /\ Len(SttEvents) >= 6
    /\ SttEvents[4] = Ev("LastTranscript", "hi")
    /\ SttEvents[5] = Ev("Error", "inject failed")
    /\ SttEvents[6] = Ev("SttBusy", "false")

\* C21: the supervisor's handling of enable/disable and port-change commands
\* (and the sending of those commands) leaves the TTS inbound queue and what
\* the TTS worker has taken unchanged; every request a listener accepted is
\* either taken already or still in the queue, in order, whatever listener
\* stops and restarts happen; and each accepted request is eventually taken
\* by the TTS worker.
C21_CommandsKeepQueue ==
    /\ [][ (cmd_rx' # cmd_rx \/ sup_pc' # sup_pc \/ running' # running
              \/ n_binds' # n_binds) =>
              (tts_rx' = tts_rx /\ taken' = taken /\ sent' = sent) ]_vars
    /\ [](sent.tts = taken.tts \o tts_rx)
    /\ \A k \in 1..MaxReqs : (Len(sent.tts) >= k) ~> (Len(taken.tts) >= k)

\* C21 witness: the only listener ever started accepted a request and was then
\* stopped; the TTS worker took the request after the listener had gone offline.
C21_Witness ==
    /\ n_binds = 1
    /\ Len(sent.tts) = 1
    /\ taken.tts = sent.tts
    /\ \E i, j \in 1..Len(events) :
          /\ i < j
          /\ events[i] = Ev("ServerOffline", "")
          /\ events[j] = Ev("TtsBusy", "true")
    /\ \A i \in 1..Len(events) : events[i].type # "Error"

\* C22: a transport error of the listener's receive ends the loop: the
\* listener thread reports the error, then ServerOffline, and is gone; and the
\* loop is left from the receive in no other way.  A receive timeout reports
\* nothing, answers nothing and takes the listener back to the top of its loop.
C22_RecvErrorEndsListener ==
    [][ /\ ( /\ Len(events') > Len(events)
             /\ events'[Len(events) + 1] = Ev("Error", "server recv failed") ) =>
               /\ \E i \in DOMAIN listeners :
                     /\ listeners[i].pc = "recv"
                     /\ listeners' = Without(listeners, i)
               /\ events' = events \o <<Ev("Error", "server recv failed"),
                                        Ev("ServerOffline", ""),
                                        Ev("Info", "endpoint offline")>>
        /\ \A i \in DOMAIN listeners :
              /\ (listeners[i].pc = "recv" /\ i \notin DOMAIN listeners') =>
                    ( /\ Len(events') = Len(events) + 3
                      /\ events'[Len(events) + 1] = Ev("Error", "server recv failed") )
              /\ ( /\ listeners[i].pc = "recv"
                   /\ i \in DOMAIN listeners'
                   /\ listeners'[i].pc # "recv"
                   /\ n_served' = n_served ) =>
                    /\ listeners' = [listeners EXCEPT ![i].pc = "poll"]
                    /\ events' = events
                    /\ reply' = reply
                    /\ tts_rx' = tts_rx ]_vars

\* C22 witness: a listener ended on a receive error: the error is followed by
\* ServerOffline and no listener thread is left, though its handle is still kept.
C22_Witness ==
    /\ listeners = <<>>
    /\ running # None
    /\ Len(events) >= 3
    /\ events[Len(events) - 2] = Ev("Error", "server recv failed")
    /\ events[Len(events) - 1] = Ev("ServerOffline", "")

\* C23: a request that is neither GET /health nor POST /speak is answered 404
\* with body {"error":"not found"}; nothing is enqueued into the TTS queue and
\* no event is sent.
C23_OtherIsNotFound ==
    [][ ( /\ Served
          /\ ~(reply'[1].req.method = "GET" /\ reply'[1].req.url = "/health")
          /\ ~(reply'[1].req.method = "POST" /\ reply'[1].req.url = "/speak") ) =>
            /\ reply'[1].resp = json_response("{\"error\":\"not found\"}", 404)
            /\ tts_rx' = tts_rx
            /\ events' = events ]_vars

\* C23 witness: GET /speak was answered 404 while an accepted request waits
\* in the queue.
C23_Witness ==
    /\ reply # None
    /\ reply[1].req.method = "GET"
    /\ reply[1].req.url = "/speak"
    /\ reply[1].resp.status = 404
    /\ Len(tts_rx) = 1

\* C24: on the integer paths of the device callback, what goes to the buffer
\* is, with one channel, the input itself (an unsigned sample s as s - 32768,
\* which lies in [-32768, 32767]); with N > 1 channels, one sample per complete
\* frame, the average of the frame's N samples rounded toward zero, and every
\* sample lies in [-32768, 32767].
C24_IntegerNormalization ==
    cb_data # None =>
        LET d == cb_data[1]
            n == device.channels
            mono == cb_pc[1]
            conv(i) == IF device.format = "u16" THEN d[i] - 32768 ELSE d[i]
            sum(k) == SumSeq([j \in 1..n |-> conv((k - 1) * n + j)])
        IN /\ \A i \in 1..Len(d) : conv(i) \in -32768..32767
           /\ \A k \in 1..Len(mono) : mono[k] \in -32768..32767
           /\ n = 1 => mono = [i \in 1..Len(d) |-> conv(i)]
           /\ n > 1 =>
                 /\ Len(mono) = Len(d) \div n
                 /\ \A k \in 1..Len(mono) :
                       /\ sum(k) >= 0 => (mono[k] * n <= sum(k) /\ sum(k) < (mono[k] + 1) * n)
                       /\ sum(k) < 0 => ((mono[k] - 1) * n < sum(k) /\ sum(k) <= mono[k] * n)

\* C24 witness: a two-channel unsigned frame whose average is negative and
\* not whole was downmixed to 0.
C24_Witness ==
    /\ device = [format |-> "u16", channels |-> 2]
    /\ cb_data = Some(<<32767, 32768>>)
    /\ cb_pc = Some(<<0>>)

\* C25: decoding the container that pcm_to_wav_bytes made of N mono samples
\* at rate R gives back the same N samples, and the rate R.
C25_WavRoundTrip ==
    wav_out # None =>
        /\ wav_out[1].ok
        /\ wav_out[1].v = wav_in.samples
        /\ PlaybackRate = wav_in.sample_rate

\* C26: at most one capture window is open at a time: no caller of the
\* recorder enters start_capture while another caller is between its own
\* start_capture and the return of its stop_capture.
C26_OneWindowAtATime ==
    [][ \A c \in Callers :
          (au_pc[c] = "idle" /\ au_pc'[c] # "idle") =>
              \A o \in Callers \ {c} : au_pc[o] = "idle" ]_vars

\* C27: whatever the interleaving of the device callback with start_capture
\* and stop_capture, the buffer is empty at the moment a window opens (when
\* start_capture sets the capturing flag), and the callback appends only in
\* the window in which it tested the flag: never after the buffer has been
\* cleared for a later window.
C27_WindowHoldsOwnSamples ==
    /\ [](\A i \in 1..Len(rec_calls) : rec_calls[i].op = "start" => rec_calls[i].ret = <<>>)
    /\ [][ (cb_pc # None /\ cb_pc' = None) => cb_win = WindowsOpened ]_vars


\* the messages sent on the websocket since the last call of xai_realtime_tts began
SendsOfLastCall(log) ==
    LET RECURSIVE SinceSynth(_)
        SinceSynth(n) == IF n = 0 \/ log[n].op = "synth" THEN <<>>
                   ELSE SinceSynth(n - 1) \o (IF log[n] \in {XaiMessages[k] : k \in 1..3}
                                          THEN <<log[n]>> ELSE <<>>)
    IN SinceSynth(Len(log))

\* C28: a streaming call sends exactly three messages, session.update, then
\* conversation.item.create, then response.create, before it reads any inbound
\* frame; when the connection or one of the sends fails the call ends with an
\* error and reads nothing.
C28_ThreeSendsBeforeReading ==
    /\ [](tts_pc \in {"loop", "read"} =>
             SendsOfLastCall(calls) = <<Sent("session.update"),
                                        Sent("conversation.item.create"),
                                        Sent("response.create")>>)
    /\ [][ (tts_pc # "synth" /\ ws_in # None /\ ws_in' = None) =>
              /\ tts_pc = "read"
              /\ Len(SendsOfLastCall(calls)) = 3 ]_vars
    /\ [][ (tts_pc = "synth" /\ tts_pc' # "synth" /\ tts_cur[1].provider = "xai"
            /\ tts_cur[1].provider \in env_keys /\ tts_pc' # "loop") =>
              /\ tts_pc' = "recv"
              /\ Len(SendsOfLastCall(calls')) < 3
              /\ IsPrefix(SendsOfLastCall(calls'), XaiMessages)
              /\ ws_in' = ws_in /\ pcm_bytes' = pcm_bytes
              /\ \E e \in {"connect error", "send error"} :
                    events' = events \o <<Ev("Error", "tts failed: " \o e),
                                          Ev("TtsBusy", "false")>> ]_vars

\* C28 witness: the three messages were sent, a frame was read and the loop is
\* at its top again, after an earlier call whose second send failed.
C28_Witness ==
    /\ tts_pc = "loop"
    /\ pcm_bytes # <<>>
    /\ Len(taken.tts) = 2
    /\ calls = <<[op |-> "synth", by |-> "tts"], Sent("session.update"),
                 [op |-> "synth", by |-> "tts"]>> \o XaiMessages

\* a worker is inside a network call of its request
SttOnNetwork == stt_pc = "transcribe"
TtsOnNetwork == tts_pc \in {"synth", "loop", "read"}

\* C29: a worker clones the configuration once per request and lets go of the
\* lock before it calls the network: while a request is on the network the lock
\* is not held by a worker, so a save in the GUI can take it, and the save
\* changes neither the snapshot nor the provider, voice and style the started
\* request works with; the transcription is made with the snapshot's provider.
C29_SnapshotPerRequest ==
    /\ [](cfg_lock \in {"free", "gui"})
    /\ []((SttOnNetwork \/ TtsOnNetwork) /\ gui_pc = "idle" /\ n_saves < MaxSaves =>
             \A d \in Drafts : ENABLED GuiSaveLock(d))
    /\ [][ /\ (stt_cur = None /\ stt_cur' # None) => stt_cur'[1].current = config
           /\ (tts_cur = None /\ tts_cur' # None) => tts_cur'[1].current = config
           /\ (stt_cur # None /\ stt_cur' # None) => stt_cur'[1].current = stt_cur[1].current
           /\ (tts_cur # None /\ tts_cur' # None) =>
                 /\ tts_cur'[1].current = tts_cur[1].current
                 /\ tts_cur'[1].provider = tts_cur[1].provider
                 /\ tts_cur'[1].voice = tts_cur[1].voice
                 /\ tts_cur'[1].style = tts_cur[1].style
           /\ config' # config =>
                 /\ cfg_lock' = "gui"
                 /\ stt_cur' = stt_cur /\ tts_cur' = tts_cur
                 /\ stt_pc' = stt_pc /\ tts_pc' = tts_pc
           /\ (SttOnNetwork /\ ~SttOnNetwork') =>
                 (CallsOf("transcribe")' = CallsOf("transcribe") + 1)
                     = (stt_cur[1].current.stt_provider \in env_keys) ]_vars

\* C29 witness: the settings were saved while both workers were on the network;
\* the transcription has since been made with the provider of the snapshot, for
\* which there is a key, although the saved provider has none, and the stream
\* of the other worker still runs with the provider it started with.
C29_Witness ==
    /\ gui_pc = "idle" /\ n_saves = 1 /\ cfg_lock = "free"
    /\ config.stt_provider = "groq"
    /\ stt_pc = "inject"
    /\ stt_cur[1].current.stt_provider = "openai"
    /\ stt_model_for(stt_cur[1].current, "openai") # stt_model_for(config, config.stt_provider)
    /\ CallsOf("transcribe") = 1
    /\ tts_pc = "read"
    /\ tts_cur[1].provider = "xai" /\ config.tts_provider = "openai"
    /\ tts_cur[1].voice # config.xai_voice \/ tts_cur[1].current # config

\* C30: with Groq as the provider and its key present, a trimmed message of
\* more than 200 characters is refused with an error before any request is
\* made, and a message of at most 200 characters is sent to the provider.
C30_GroqLimit ==
    /\ [](tts_cur # None => tts_cur[1].message = Trim(tts_cur[1].speak.message))
    /\ [][ (tts_pc = "synth" /\ tts_pc' # "synth" /\ tts_cur[1].provider = "groq"
            /\ "groq" \in env_keys) =>
              IF CharCount(tts_cur[1].message) > 200
                THEN /\ calls' = calls
                     /\ tts_pc' = "recv"
                     /\ events' = events \o
                           <<Ev("Error", "tts failed: Groq Orpheus input max is 200 chars"),
                             Ev("TtsBusy", "false")>>
                ELSE calls' = Append(calls, [op |-> "synth", by |-> "tts"]) ]_vars

\* C30 witness: a message that is 201 characters long once trimmed was refused
\* without a request, and a message that is 200 characters long once trimmed
\* was sent and is being played.
C30_Witness ==
    /\ "groq" \in env_keys
    /\ Len(taken.tts) = 2
    /\ taken.tts[1].speak.message = " a message of 201 characters\n"
    /\ taken.tts[1].speak.provider = None
    /\ taken.tts[2].speak.message = "  a message of 200 characters  "
    /\ tts_pc = "play"
    /\ tts_cur[1].provider = "groq"
    /\ calls = <<[op |-> "synth", by |-> "tts"]>>
    /\ \E i \in 1..Len(events) :
          events[i] = Ev("Error", "tts failed: Groq Orpheus input max is 200 chars")

\* C31: once stop_server has sent the stop signal and waits in the join, the
\* join returns and the supervisor is back in cmd_rx.recv(); a listener that
\* was sent the signal ends; a listener ends only at the loop top with the
\* signal received or on a receive error; and the join returns only when the
\* thread has ended, which includes a thread that had ended before the signal.
C31_StopTerminates ==
    /\ (sup_pc = "join") ~> (sup_pc = "recv")
    /\ \A i \in ListenerIds :
          (i \in DOMAIN listeners /\ listeners[i].stop_rx > 0) ~> (i \notin DOMAIN listeners)
    /\ [][ \A i \in DOMAIN listeners : i \notin DOMAIN listeners' =>
              \/ listeners[i].pc = "poll" /\ listeners[i].stop_rx > 0
              \/ /\ listeners[i].pc = "recv"
                 /\ \E k \in 1..Len(events') : events'[k] = Ev("Error", "server recv failed") ]_vars
    /\ [][ (sup_pc = "join" /\ sup_pc' # "join") =>
              (sup_pc' = "recv" /\ active[1].id \notin DOMAIN listeners) ]_vars

\* C31 witness: the only listener ever started ended on a receive error, and
\* set_enabled(false) has since been processed: stop_server took the handle of
\* the ended thread, signalled, joined and returned.
C31_Witness ==
    /\ n_binds = 1
    /\ HasEvent("Error", "server recv failed")
    /\ cmd = Some(SetEnabledCmd(FALSE))
    /\ sup_pc = "recv"
    /\ running = None /\ active = None
    /\ cmd_rx = <<>>

\* C33: whenever the supervisor holds a running handle, the listener thread of
\* that handle is alive and bound to the handle's port; and a command processed
\* while enabled, when the thread of the handle held has ended, binds again.
C33_RunningMeansAlive ==
    /\ [](running # None =>
             /\ running[1].id \in DOMAIN listeners
             /\ listeners[running[1].id].port = running[1].port)
    /\ [][ ( /\ CommandDone
             /\ enabled'
             /\ HandleBefore # None
             /\ HandleBefore[1].id \notin DOMAIN listeners
             /\ sup_pc = "recv" ) => n_binds' = n_binds + 1 ]_vars

\* C35: a command that leaves the desired state equal to the current one
\* (enabled and running on the desired port, or disabled and stopped) changes
\* nothing: no handle taken or made, no listener signalled, started or ended,
\* no bind, no event, and the supervisor is back in recv at once.
C35_NoOpCommand ==
    [][ ( /\ sup_pc = "recv"
          /\ Len(cmd_rx') < Len(cmd_rx)
          /\ enabled' = enabled
          /\ port' = port
          /\ \/ enabled /\ running # None /\ running[1].port = port
             \/ ~enabled /\ running = None )
        => ( /\ running' = running
             /\ active' = active
             /\ listeners' = listeners
             /\ events' = events
             /\ n_binds' = n_binds
             /\ sup_pc' = "recv" ) ]_vars

\* C35 witness: the supervisor started enabled on 8000; the one command sent,
\* set_port(8000), has been processed, and the listener of the only bind made
\* is still the one running.
C35_Witness ==
    /\ n_cmds = 1 /\ cmd_rx = <<>>
    /\ cmd = Some(SetPortCmd(8000))
    /\ sup_pc = "recv"
    /\ n_binds = 1
    /\ running # None /\ running[1].port = 8000
    /\ running[1].id \in DOMAIN listeners
    /\ ~HasEvent("ServerOffline", "")

\* C36: while the supervisor is disabled, set_port(P) stores P and does nothing
\* else (no bind, no listener, no event); set_enabled(true) received while
\* disabled makes one bind, and the listener it starts is bound to the port
\* stored by then, the last one set.
C36_PortRemembered ==
    /\ [](~enabled /\ sup_pc = "recv" => running = None /\ listeners = <<>>)
    /\ [][ ( /\ sup_pc = "recv"
             /\ Len(cmd_rx') < Len(cmd_rx)
             /\ ~enabled
             /\ Head(cmd_rx).cmd = "SetPort" )
           => ( /\ port' = Head(cmd_rx).next
                /\ ~enabled'
                /\ n_binds' = n_binds
                /\ listeners' = <<>>
                /\ running' = None
                /\ events' = events
                /\ sup_pc' = "recv" ) ]_vars
    /\ [][ ( /\ sup_pc = "recv"
             /\ Len(cmd_rx') < Len(cmd_rx)
             /\ ~enabled
             /\ Head(cmd_rx) = SetEnabledCmd(TRUE) )
           => ( /\ port' = port
                /\ n_binds' = n_binds + 1
                /\ IF last_bind' = "ok"
                     THEN /\ running' # None
                          /\ running'[1].port = port
                          /\ DOMAIN listeners' = {running'[1].id}
                          /\ listeners'[running'[1].id].port = port
                     ELSE running' = None /\ listeners' = <<>> ) ]_vars

\* C36 witness: started disabled on 8000; two commands were sent and processed,
\* the second being set_enabled(true); the only bind made was to 9000, whose
\* listener is online, and no listener was ever online on 8000.
C36_Witness ==
    /\ n_cmds = 2 /\ cmd_rx = <<>>
    /\ cmd = Some(SetEnabledCmd(TRUE))
    /\ sup_pc = "recv"
    /\ n_binds = 1
    /\ running # None /\ running[1].port = 9000
    /\ HasEvent("ServerOnline", Endpoint(9000))
    /\ ~HasEvent("ServerOnline", Endpoint(8000))

\* the ServerOnline and ServerOffline events sent so far, in order
ServerEvents == SelectSeq(events, LAMBDA e : e.type \in {"ServerOnline", "ServerOffline"})

\* what drain_events leaves in `endpoint` once it has handled every event sent
\* (None while no server event was sent)
EndpointShown ==
    IF ServerEvents = <<>> THEN None
    ELSE LET e == ServerEvents[Len(ServerEvents)]
         IN Some(IF e.type = "ServerOnline" THEN e.arg ELSE "Disabled")

\* C37: ServerOnline and ServerOffline of successive listeners do not
\* interleave: every ServerOnline but the last is followed directly by a
\* ServerOffline; and the last server event tells what is bound: the endpoint
\* of the listener that has announced itself, and offline (or nothing yet)
\* while no listener exists or the new one has not announced itself.
C37_ServerEventsInOrder ==
    /\ \A k \in 1..(Len(ServerEvents) - 1) :
          ServerEvents[k].type = "ServerOnline" => ServerEvents[k + 1].type = "ServerOffline"
    /\ \A i \in DOMAIN listeners :
          IF listeners[i].pc = "spawned"
            THEN EndpointShown \in {None, Some("Disabled")}
            ELSE EndpointShown = Some(Endpoint(listeners[i].port))
    /\ listeners = <<>> => EndpointShown \in {None, Some("Disabled")}

\* C37 witness: a listener on 8000 was stopped and its replacement on 9000 is
\* online: online(8000), offline, online(9000).
C37_Witness ==
    /\ ServerEvents = <<Ev("ServerOnline", Endpoint(8000)), Ev("ServerOffline", ""),
                        Ev("ServerOnline", Endpoint(9000))>>
    /\ \E i \in DOMAIN listeners : listeners[i].port = 9000 /\ listeners[i].pc # "spawned"
    /\ sup_pc = "recv"

\* the value of `enabled` once the supervisor has taken every command of a queue
RECURSIVE EnabledAfter(_, _)
EnabledAfter(en, queue) ==
    IF queue = <<>> THEN en
    ELSE EnabledAfter(IF Head(queue).cmd = "SetEnabled" THEN Head(queue).next ELSE en,
                      Tail(queue))

\* the saved settings are the ones in the drafts and every command was processed
Settled ==
    /\ n_saves >= 1 /\ gui_pc = "idle"
    /\ draft.server_port = config.server_port
    /\ draft.tts_bridge_enabled = config.tts_bridge_enabled
    /\ cmd_rx = <<>> /\ sup_pc = "recv"

\* C40: Save sends set_port(port) and then set_enabled(enabled); once its
\* commands are processed the supervisor is enabled as saved, on the saved port
\* (with a handle on that port unless the bind failed), or stopped with no
\* listener; the commands of a save are always processed; and the set_port of
\* a save made with the bridge disabled is processed while the supervisor is
\* disabled: it signals, joins and binds nothing.
C40_SaveConverges ==
    /\ [][ (gui_pc = "saving" /\ gui_pc' = "idle") =>
              cmd_rx' = cmd_rx \o <<SetPortCmd(draft.server_port),
                                    SetEnabledCmd(draft.tts_bridge_enabled)>> ]_vars
    /\ [](Settled =>
             /\ enabled = config.tts_bridge_enabled
             /\ port = config.server_port
             /\ (enabled /\ last_bind = "ok") => (running # None /\ running[1].port = port)
             /\ ~enabled => (running = None /\ listeners = <<>>))
    /\ (gui_pc = "saving") ~> (gui_pc = "idle" /\ cmd_rx = <<>> /\ sup_pc = "recv")
    /\ [](EnabledAfter(enabled, cmd_rx) = draft.tts_bridge_enabled)
    /\ [][ ( /\ sup_pc = "recv"
             /\ Len(cmd_rx') < Len(cmd_rx)
             /\ Head(cmd_rx).cmd = "SetPort"
             /\ Len(cmd_rx) >= 2
             /\ cmd_rx[2] = SetEnabledCmd(FALSE) )
           => ( /\ ~enabled
                /\ n_binds' = n_binds
                /\ listeners' = listeners
                /\ running' = None
                /\ sup_pc' = "recv" ) ]_vars

\* C40 witness: the bridge ran on 8000; the checkbox was cleared, the port
\* changed to 9000 and the settings saved; all commands are processed, the
\* supervisor is stopped, and the only listener ever online was the one on 8000.
C40_Witness ==
    /\ Settled
    /\ ~config.tts_bridge_enabled /\ config.server_port = 9000
    /\ n_cmds = 3
    /\ n_binds = 1
    /\ HasEvent("ServerOnline", Endpoint(8000))
    /\ ~HasEvent("ServerOnline", Endpoint(9000))
    /\ port = 9000 /\ ~enabled /\ running = None /\ listeners = <<>>

\* the physical keys of each modifier
ModifierKeys ==
    [ctrl |-> {"ControlLeft", "ControlRight"}, shift |-> {"ShiftLeft", "ShiftRight"},
     alt |-> {"Alt", "AltGr"}, meta |-> {"MetaLeft", "MetaRight"}]

\* C34: under the event-hook backend, after any sequence of key events each
\* modifier flag of KeyState is true exactly when at least one of the
\* modifier's physical keys is held down.
C34_ModifierFlagsTrackKeys ==
    (backend = "hook" /\ hk_pc = "run") =>
        /\ st.ctrl = (held \cap ModifierKeys.ctrl # {})
        /\ st.shift = (held \cap ModifierKeys.shift # {})
        /\ st.alt = (held \cap ModifierKeys.alt # {})
        /\ st.meta = (held \cap ModifierKeys.meta # {})

\* C38: for every chord parse_hotkey_spec accepts and every set of held keys,
\* the event-hook backend (is_hotkey_active over its KeyState, whose result the
\* edge detector keeps in was_active) and the polling backend
\* (is_hotkey_active_windows over the keys held) agree on whether the chord is
\* satisfied.
C38_BackendsAgree ==
    (hk_pc = "run" /\ backend = "hook" /\ parse_hotkey_spec(hotkey_str) # None) =>
        /\ is_hotkey_active(st, spec[1]) = is_hotkey_active_windows(spec[1])
        /\ was_active = is_hotkey_active_windows(spec[1])

\* C39: for every request, configuration and provider, the voice resolve_voice
\* returns, which the TTS worker passes to synthesis, is a member of the target
\* provider's fixed valid-voice set.
C39_ResolvedVoiceValid ==
    tts_cur # None => is_valid_voice(tts_cur[1].provider, tts_cur[1].voice)

SpeakHello ==
    [method |-> "POST", url |-> "/speak", body |-> Readable([message |-> JStr("hello")])]

\* C32: every enqueue is fire-and-forget.  A producer's step is enabled
\* whatever its queue holds and whether or not the receiver is alive: a caller
\* of set_enabled, a listener that received a request, the hook on a key
\* release.  A send to a receiver that is gone enqueues nothing and changes
\* nothing else of the step: the listener answers an accepted /speak with 202
\* and goes back to its loop, the command call returns with the supervisor's
\* state untouched, and the hook ends the capture, reports Listening(false)
\* and keeps running.
C32_FireAndForget ==
    /\ [](/\ (InputsLeft /\ n_cmds < MaxCmds) =>
                ENABLED (set_enabled(TRUE) /\ UNCHANGED serverFrame)
          /\ \A i \in DOMAIN listeners :
                (InputsLeft /\ n_served < MaxReqs /\ listeners[i].pc = "recv") =>
                    ENABLED (LsnRequest(i, SpeakHello) /\ UNCHANGED serverFrame)
          /\ (InputsLeft /\ n_keys < MaxKeys /\ hk_pc = "run" /\ "Space" \in held) =>
                ENABLED (HookKeyRelease("Space")
                           /\ UNCHANGED <<serverVars, workerVars, guiVars, appVars, codecVars>>))
    /\ [][ /\ (n_served' = n_served + 1 /\ reply'[1].req = SpeakHello) =>
                /\ reply'[1].resp = json_response("{\"accepted\":true}", 202)
                /\ tts_rx' = IF "tts" \in rx_gone THEN tts_rx
                             ELSE Append(tts_rx, TtsRequest(SpeakRequestOf(SpeakHello.body)))
                /\ \E i \in DOMAIN listeners :
                      /\ listeners[i].pc = "recv"
                      /\ listeners' = [listeners EXCEPT ![i].pc = "poll"]
                /\ events' = events
           /\ n_cmds' = n_cmds + 1 =>
                /\ "cmd" \in rx_gone => cmd_rx' = cmd_rx
                /\ "cmd" \notin rx_gone => (Len(cmd_rx') = Len(cmd_rx) + 1
                                             /\ SubSeq(cmd_rx', 1, Len(cmd_rx)) = cmd_rx)
                /\ UNCHANGED <<enabled, port, running, active, sup_pc, listeners, events>>
           /\ (was_active /\ ~was_active') =>
                /\ stt_rx' = IF buffer # <<>> /\ "stt" \notin rx_gone
                               THEN Append(stt_rx, buffer) ELSE stt_rx
                /\ events' = Append(events, Ev("Listening", "false"))
                /\ capturing' = FALSE
                /\ hk_pc' = "run"
                /\ spec' = spec ]_vars

\* C32 witness: the TTS worker's receiver is gone, nothing is queued for it,
\* and the listener has answered an accepted /speak with 202 and is back at
\* the top of its loop.
C32_Witness ==
    /\ "tts" \in rx_gone
    /\ tts_rx = <<>>
    /\ reply # None
    /\ reply[1].req = SpeakHello
    /\ reply[1].resp.status = 202
    /\ \E i \in DOMAIN listeners : listeners[i].pc = "poll"
====
